---- MODULE Spec2Model ----
(***************************************************************************)
(* A model of the docgen tool (tools/docgen): the TypeScript extractor     *)
(* (extractors/typescript.rs), the markdown generator                      *)
(* (generators/markdown.rs) and the generate command                       *)
(* (commands/generate.rs).                                                 *)
(*                                                                         *)
(* Text is a sequence of one-character strings; offsets are 0-based as in  *)
(* the Rust source, sequence indices are 1-based.  Option<T> is a sequence *)
(* of length 0 (None) or 1 (Some).                                         *)
(***************************************************************************)
EXTENDS Integers, Sequences, FiniteSets, TLC

VARIABLES
    \* extract_jsdoc: its arguments, the lines of the comment, the loop
    \* position, the JsDoc being built and the control point
    content, export_start, jlines, jidx, jd, jpc,
    \* parse_function_params: its arguments, the segments still to visit, the
    \* vector being built and the control point
    params_str, pjsdoc, psegs, params, ppc,
    \* extract_file: the file (its path, whether it can be read, its text),
    \* the pass, the offset the pass searches from, the exports pushed so far
    \* and the control point
    file, pass, search_from, exports, spc,
    \* extract_package: the package on disk and its configuration, the file
    \* map being filled, the positions of the two loops, the metadata read,
    \* the results of the calls finished so far and the control point
    pkg, config, files, entry_idx, walk_idx, meta, results, epc,
    \* generate::run: the packages on disk and the loaded configuration, the
    \* filter argument, the position of the loop over the packages, the
    \* output directory's files, the paths written and the process_package
    \* calls made by the run in progress, the results of the runs finished so
    \* far and the control point
    sources, docgen, package_filter, gidx, outfs, written, calls, gresults, gpc,
    \* what extract_file returns for each file of the packages on disk
    scans,
    \* the markdown renderer: the function called with its arguments, the
    \* text it returned and the control point
    rinput, routput, rpc,
    \* validate::run: the documentation tree and the strict flag, the
    \* position of the loop over the markdown files, the ValidationResult,
    \* how the run ended and the control point
    vfs, strict, vidx, vresult, voutcome, vpc

jvars == <<content, export_start, jlines, jidx, jd, jpc>>
pvars == <<params_str, pjsdoc, psegs, params, ppc>>
svars == <<file, pass, search_from, exports, spc>>
evars == <<pkg, config, files, entry_idx, walk_idx, meta, results, epc>>
gvars == <<sources, docgen, package_filter, gidx, outfs, written, calls, gresults, gpc>>
rvars == <<rinput, routput, rpc>>
vvars == <<vfs, strict, vidx, vresult, voutcome, vpc>>
vars == <<jvars, pvars, svars, evars, gvars, scans, rvars, vvars>>

\* What each component leaves alone
notJ == <<pvars, svars, evars, gvars, scans, rvars, vvars>>
notP == <<jvars, svars, evars, gvars, scans, rvars, vvars>>
notS == <<jvars, pvars, evars, gvars, scans, rvars, vvars>>
notE == <<jvars, pvars, svars, gvars, scans, rvars, vvars>>
notG == <<jvars, pvars, svars, evars, scans, rvars, vvars>>
notR == <<jvars, pvars, svars, evars, gvars, scans, vvars>>
notV == <<jvars, pvars, svars, evars, gvars, scans, rvars>>

(***************************************************************************)
(* Text primitives (the std::str methods the source calls).                *)
(***************************************************************************)
Str(s) == [i \in 1..Len(s) |-> SubSeq(s, i, i)]

None == <<>>
Some(x) == <<x>>

SetMin(S) == CHOOSE m \in S : \A k \in S : m <= k
SetMax(S) == CHOOSE m \in S : \A k \in S : m >= k

WhiteSpace == {" ", "\n", "\t", "\r"}

\* str::trim
Trim(s) ==
    LET nz == {i \in 1..Len(s) : s[i] \notin WhiteSpace}
    IN  IF nz = {} THEN <<>> ELSE SubSeq(s, SetMin(nz), SetMax(nz))

\* str::trim_start
TrimStart(s) ==
    LET nz == {i \in 1..Len(s) : s[i] \notin WhiteSpace}
    IN  IF nz = {} THEN <<>> ELSE SubSeq(s, SetMin(nz), Len(s))

\* str::trim_start_matches(char)
TrimStartMatches(s, c) ==
    LET nz == {i \in 1..Len(s) : s[i] # c}
    IN  IF nz = {} THEN <<>> ELSE SubSeq(s, SetMin(nz), Len(s))

\* str::trim_end_matches(char)
TrimEndMatches(s, c) ==
    LET nz == {i \in 1..Len(s) : s[i] # c}
    IN  IF nz = {} THEN <<>> ELSE SubSeq(s, 1, SetMax(nz))

\* str::starts_with
StartsWith(s, p) == Len(s) >= Len(p) /\ SubSeq(s, 1, Len(p)) = p

\* 0-based offsets at which p occurs in s
Occurrences(s, p) ==
    {i \in 0..(Len(s) - Len(p)) : SubSeq(s, i + 1, i + Len(p)) = p}

\* str::contains(&str)
ContainsStr(s, p) == Occurrences(s, p) # {}

\* str::contains(char)
ContainsChar(s, c) == \E i \in 1..Len(s) : s[i] = c

\* str::rfind: Some(offset of the last occurrence) or None
RFind(s, p) ==
    IF Occurrences(s, p) = {} THEN None ELSE Some(SetMax(Occurrences(s, p)))

\* str::replace(c, ""): every occurrence of the character removed
RemoveChar(s, c) == SelectSeq(s, LAMBDA x : x # c)

\* s[from..] with a 0-based byte offset; the caller checks from <= Len(s)
SliceFrom(s, from) == SubSeq(s, from + 1, Len(s))

\* s[..to] with a 0-based byte offset
SliceTo(s, to) == SubSeq(s, 1, to)

\* str::split(char): every segment, empty ones included
RECURSIVE Split(_, _)
Split(s, c) ==
    LET at == {i \in 1..Len(s) : s[i] = c}
    IN  IF at = {} THEN <<s>>
        ELSE <<SubSeq(s, 1, SetMin(at) - 1)>>
                 \o Split(SubSeq(s, SetMin(at) + 1, Len(s)), c)

\* str::splitn(2, char): at most two parts, split at the first separator
SplitN2(s, c) ==
    LET at == {i \in 1..Len(s) : s[i] = c}
    IN  IF at = {} THEN <<s>>
        ELSE <<SubSeq(s, 1, SetMin(at) - 1), SubSeq(s, SetMin(at) + 1, Len(s))>>

\* str::lines: split at "\n", a final empty piece dropped, and one trailing
\* "\r" stripped from every line
StripCr(l) == IF Len(l) > 0 /\ l[Len(l)] = "\r" THEN SubSeq(l, 1, Len(l) - 1) ELSE l
Lines(s) ==
    LET parts == Split(s, "\n")
        kept  == IF parts[Len(parts)] = <<>>
                 THEN SubSeq(parts, 1, Len(parts) - 1) ELSE parts
    IN  [i \in 1..Len(kept) |-> StripCr(kept[i])]

\* [String]::join(sep)
RECURSIVE Join(_, _)
Join(ss, sep) ==
    IF ss = <<>> THEN <<>>
    ELSE IF Len(ss) = 1 THEN ss[1]
    ELSE ss[1] \o sep \o Join(Tail(ss), sep)

\* HashMap::insert
MapInsert(m, k, v) == [x \in (DOMAIN m) \cup {k} |-> IF x = k THEN v ELSE m[x]]

\* HashMap::get(..).cloned()
MapGet(m, k) == IF k \in DOMAIN m THEN Some(m[k]) ELSE None

(***************************************************************************)
(* extract_jsdoc (typescript.rs:340-402).                                  *)
(***************************************************************************)
\* The JsDoc value with the loop's locals (description_lines, in_example,
\* current_example); panicked records a slice out of range.
JsDocNew ==
    [description |-> None, params |-> <<>>, returns |-> None,
     examples |-> <<>>, deprecated |-> None,
     description_lines |-> <<>>, in_example |-> FALSE,
     current_example |-> <<>>, panicked |-> FALSE]

\* The comment text between the delimiters, or None when a delimiter is missing
FindComment(text, start) ==
    LET before == SliceTo(text, start)
        comment_end == RFind(before, Str("*/"))
    IN  IF comment_end = None THEN None
        ELSE LET comment_start == RFind(SliceTo(before, comment_end[1]), Str("/**"))
             IN  IF comment_start = None THEN None
                 ELSE Some(SubSeq(before, comment_start[1] + 4, comment_end[1]))

\* line.trim().trim_start_matches('*').trim()
CleanLine(raw) == Trim(TrimStartMatches(Trim(raw), "*"))

\* The index that the @return/@returns branch slices at
ReturnSliceAt == 8

\* One iteration of the loop over comment.lines()
JsDocLine(st, raw) ==
    LET line == CleanLine(raw)
    IN  IF StartsWith(line, Str("@param"))
        THEN LET parts == SplitN2(Trim(SliceFrom(line, 6)), " ")
             IN  IF Len(parts) >= 2
                 THEN [st EXCEPT !.params =
                          MapInsert(@, TrimEndMatches(TrimStartMatches(parts[1], "{"), "}"),
                                    parts[2])]
                 ELSE st
        ELSE IF StartsWith(line, Str("@returns")) \/ StartsWith(line, Str("@return"))
        THEN IF ReturnSliceAt > Len(line)
             THEN [st EXCEPT !.panicked = TRUE]
             ELSE [st EXCEPT !.returns = Some(Trim(SliceFrom(line, ReturnSliceAt)))]
        ELSE IF StartsWith(line, Str("@example"))
        THEN [st EXCEPT !.in_example = TRUE]
        ELSE IF StartsWith(line, Str("@deprecated"))
        THEN [st EXCEPT !.deprecated = Some(Trim(SliceFrom(line, 11)))]
        ELSE IF StartsWith(line, Str("@"))
        THEN IF st.in_example /\ st.current_example # <<>>
             THEN [st EXCEPT !.examples = Append(@, Trim(st.current_example)),
                             !.current_example = <<>>,
                             !.in_example = FALSE]
             ELSE [st EXCEPT !.in_example = FALSE]
        ELSE IF st.in_example
        THEN [st EXCEPT !.current_example = @ \o line \o <<"\n">>]
        ELSE IF line # <<>>
        THEN [st EXCEPT !.description_lines = Append(@, line)]
        ELSE st

\* After the loop: the open example is pushed and the description joined
JsDocFinish(st) ==
    LET flushed == IF st.in_example /\ st.current_example # <<>>
                   THEN [st EXCEPT !.examples = Append(@, Trim(st.current_example))]
                   ELSE st
    IN  IF flushed.description_lines # <<>>
        THEN [flushed EXCEPT !.description = Some(Join(flushed.description_lines, <<" ">>))]
        ELSE flushed

\* extract_jsdoc as one value: the loop folded over the comment's lines; a
\* panic ends it
RECURSIVE JsDocFold(_, _, _)
JsDocFold(st, ls, i) ==
    IF i > Len(ls) THEN JsDocFinish(st)
    ELSE LET n == JsDocLine(st, ls[i])
         IN  IF n.panicked THEN n ELSE JsDocFold(n, ls, i + 1)

ExtractJsdoc(text, start) ==
    LET c == FindComment(text, start)
    IN  IF c = None THEN JsDocNew ELSE JsDocFold(JsDocNew, Lines(c[1]), 1)

(***************************************************************************)
(* parse_function_params (typescript.rs:404-437).                          *)
(***************************************************************************)
\* ParseParam with the marker looked for in the name part only
ParseParamMarkerInName(param, jsdoc_params) ==
    LET optional == ContainsChar(SplitN2(param, ":")[1], "?")
        stripped == RemoveChar(param, "?")
        parts == SplitN2(stripped, ":")
        name == Trim(parts[1])
    IN  [name |-> name,
         type_annotation |-> IF Len(parts) >= 2 THEN Trim(parts[2]) ELSE Str("unknown"),
         description |-> MapGet(jsdoc_params, name),
         optional |-> optional,
         default |-> None]

\* The loop body for one non-empty segment (already trimmed)
ParseParam(param, jsdoc_params) ==
    LET optional == ContainsChar(param, "?")
        stripped == RemoveChar(param, "?")
        parts == SplitN2(stripped, ":")
        name == Trim(parts[1])
    IN  [name |-> name,
         type_annotation |-> IF Len(parts) >= 2 THEN Trim(parts[2]) ELSE Str("unknown"),
         description |-> MapGet(jsdoc_params, name),
         optional |-> optional,
         default |-> None]

\* The whole function: the vector of parameters of a raw parameter list
RECURSIVE ParseSegments(_, _)
ParseSegments(segs, jsdoc_params) ==
    IF segs = <<>> THEN <<>>
    ELSE LET param == Trim(Head(segs))
         IN  (IF param = <<>> THEN <<>> ELSE <<ParseParam(param, jsdoc_params)>>)
                 \o ParseSegments(Tail(segs), jsdoc_params)

ParseFunctionParams(str, jsdoc_params) ==
    IF Trim(str) = <<>> THEN <<>>
    ELSE ParseSegments(Split(str, ","), jsdoc_params)

(***************************************************************************)
(* The regular expressions of extract_file (typescript.rs:100-224) and     *)
(* their matching: leftmost-first, as the regex crate finds it.  A pattern *)
(* is a tree of nodes; Match gives, in the order a backtracking search     *)
(* tries them, every way the node can match at an offset: the end offset   *)
(* and the capture groups (<<>> while unset, <<start, end>> once set).     *)
(***************************************************************************)
Lit(str) == [t |-> "lit", s |-> Str(str)]
AnyChar == [t |-> "any"]                    \* [\s\S]
Ws == [t |-> "ws"]                          \* \s
Word == [t |-> "word"]                      \* \w
NotCh(c) == [t |-> "not", c |-> c]          \* [^c]
Bol == [t |-> "bol"]                        \* (?m)^
Cat(rs) == [t |-> "cat", rs |-> rs]
Opt(r) == [t |-> "opt", r |-> r]            \* r?
Star(r) == [t |-> "star", r |-> r]          \* r*
LazyStar(r) == [t |-> "lazy", r |-> r]      \* r*?
Plus(r) == [t |-> "plus", r |-> r]          \* r+
Grp(n, r) == [t |-> "grp", n |-> n, r |-> r]

WordChars ==
    LET w == Str("abcdefghijklmnopqrstuvwxyzABCDEFGHIJKLMNOPQRSTUVWXYZ0123456789_")
    IN  {w[i] : i \in 1..Len(w)}

NoCaps == [n \in 1..3 |-> <<>>]

\* Whether a character is in a one-character class
InClass(r, ch) ==
    CASE r.t = "any" -> TRUE
      [] r.t = "ws" -> ch \in WhiteSpace
      [] r.t = "word" -> ch \in WordChars
      [] r.t = "not" -> ch # r.c

\* The end of the longest run of characters of a class that starts at offset i
RunEnd(r, s, i) ==
    LET bad == {j \in (i + 1)..Len(s) : ~InClass(r, s[j])}
    IN  IF bad = {} THEN Len(s) ELSE SetMin(bad) - 1

RECURSIVE Match(_, _, _, _), MatchEach(_, _, _, _, _), MatchCat(_, _, _, _)

\* Every match of r that starts where one of xs[lo..hi] ended, in order
MatchEach(r, s, xs, lo, hi) ==
    IF lo > hi THEN <<>>
    ELSE IF lo = hi THEN Match(r, s, xs[lo].e, xs[lo].c)
    ELSE MatchEach(r, s, xs, lo, (lo + hi) \div 2)
             \o MatchEach(r, s, xs, (lo + hi) \div 2 + 1, hi)

MatchCat(rs, k, s, xs) ==
    IF k > Len(rs) \/ xs = <<>> THEN xs
    ELSE MatchCat(rs, k + 1, s, MatchEach(rs[k], s, xs, 1, Len(xs)))

\* The repetitions are of one-character classes only: a greedy one tries the
\* longest run first, a lazy one the shortest
Match(r, s, i, c) ==
    LET here == <<[e |-> i, c |-> c]>>
    IN  CASE r.t = "lit" ->
               IF i + Len(r.s) <= Len(s) /\ SubSeq(s, i + 1, i + Len(r.s)) = r.s
               THEN <<[e |-> i + Len(r.s), c |-> c]>> ELSE <<>>
          [] r.t \in {"any", "ws", "word", "not"} ->
               IF i < Len(s) /\ InClass(r, s[i + 1])
               THEN <<[e |-> i + 1, c |-> c]>> ELSE <<>>
          [] r.t = "bol" -> IF i = 0 \/ s[i] = "\n" THEN here ELSE <<>>
          [] r.t = "cat" -> MatchCat(r.rs, 1, s, here)
          [] r.t = "opt" -> Match(r.r, s, i, c) \o here
          [] r.t = "star" ->
               [k \in 1..(RunEnd(r.r, s, i) - i + 1) |->
                   [e |-> RunEnd(r.r, s, i) - k + 1, c |-> c]]
          [] r.t = "lazy" ->
               [k \in 1..(RunEnd(r.r, s, i) - i + 1) |-> [e |-> i + k - 1, c |-> c]]
          [] r.t = "plus" ->
               [k \in 1..(RunEnd(r.r, s, i) - i) |->
                   [e |-> RunEnd(r.r, s, i) - k + 1, c |-> c]]
          [] r.t = "grp" ->
               LET xs == Match(r.r, s, i, c)
               IN  [k \in 1..Len(xs) |->
                       [e |-> xs[k].e, c |-> [xs[k].c EXCEPT ![r.n] = <<i, xs[k].e>>]]]

\* Regex::find_at: the leftmost match starting at or after the offset
FindAt(re, s, from) ==
    LET starts == {i \in from..Len(s) : Match(re, s, i, NoCaps) # <<>>}
    IN  IF starts = {} THEN None
        ELSE LET xs == Match(re, s, SetMin(starts), NoCaps)
             IN  Some([start |-> SetMin(starts), end |-> xs[1].e, caps |-> xs[1].c])

\* Captures::get(n).map(|m| m.as_str())
CapStr(s, mt, n) ==
    IF mt.caps[n] = <<>> THEN None
    ELSE Some(SubSeq(s, mt.caps[n][1] + 1, mt.caps[n][2]))

DocPrefix == Opt(Cat(<<Lit("/**"), LazyStar(AnyChar), Lit("*/"), Star(Ws)>>))
Generics == Opt(Cat(<<Lit("<"), Plus(NotCh(">")), Lit(">")>>))

interface_re ==
    Cat(<<Bol, DocPrefix, Lit("export"), Plus(Ws), Lit("interface"), Plus(Ws),
          Grp(1, Plus(Word)), Generics, Star(Ws),
          Lit("{"), Grp(2, Star(NotCh("}"))), Lit("}")>>)

type_re ==
    Cat(<<Bol, DocPrefix, Lit("export"), Plus(Ws), Lit("type"), Plus(Ws),
          Grp(1, Plus(Word)), Generics, Star(Ws), Lit("="), Star(Ws),
          Grp(2, Plus(NotCh(";"))), Lit(";")>>)

fn_re ==
    Cat(<<Bol, DocPrefix, Lit("export"), Plus(Ws),
          Opt(Cat(<<Lit("async"), Plus(Ws)>>)), Lit("function"), Plus(Ws),
          Grp(1, Plus(Word)), Star(Ws), Generics, Star(Ws),
          Lit("("), Grp(2, Star(NotCh(")"))), Lit(")"),
          Opt(Cat(<<Star(Ws), Lit(":"), Star(Ws), Grp(3, Plus(NotCh("{")))>>)),
          Star(Ws), Lit("{")>>)

\* The const pattern without its closing "=": any name after "const" matches
const_re_any_name ==
    Cat(<<Bol, DocPrefix, Lit("export"), Plus(Ws), Lit("const"), Plus(Ws),
          Grp(1, Plus(Word)),
          Opt(Cat(<<Star(Ws), Lit(":"), Star(Ws), Grp(2, Plus(NotCh("=")))>>))>>)

const_re ==
    Cat(<<Bol, DocPrefix, Lit("export"), Plus(Ws), Lit("const"), Plus(Ws),
          Grp(1, Plus(Word)),
          Opt(Cat(<<Star(Ws), Lit(":"), Star(Ws), Grp(2, Plus(NotCh("=")))>>)),
          Star(Ws), Lit("=")>>)

class_re ==
    Cat(<<Bol, DocPrefix, Lit("export"), Plus(Ws), Lit("class"), Plus(Ws),
          Grp(1, Plus(Word)), Generics,
          Opt(Cat(<<Plus(Ws), Lit("extends"), Plus(Ws), Plus(NotCh("{"))>>)),
          Opt(Cat(<<Plus(Ws), Lit("implements"), Plus(Ws), Plus(NotCh("{"))>>)),
          Star(Ws), Lit("{")>>)

enum_re ==
    Cat(<<Bol, DocPrefix, Lit("export"), Plus(Ws),
          Opt(Cat(<<Lit("const"), Plus(Ws)>>)), Lit("enum"), Plus(Ws),
          Grp(1, Plus(Word)), Star(Ws), Lit("{")>>)

(***************************************************************************)
(* extract_file (typescript.rs:88-245): six passes in a fixed order, each  *)
(* pushing one Export per match.                                           *)
(***************************************************************************)
PassKinds == <<"Interface", "Type", "Function", "Const", "Class", "Enum">>

PassRegex(p) ==
    CASE p = 1 -> interface_re
      [] p = 2 -> type_re
      [] p = 3 -> fn_re
      [] p = 4 -> const_re
      [] p = 5 -> class_re
      [] p = 6 -> enum_re

\* count_lines (typescript.rs:439-441)
count_lines(s) == Cardinality({i \in 1..Len(s) : s[i] = "\n"})

\* The line of an Export: count_lines(&content[..start]) + 1
ExportLine(text, start) == count_lines(SliceTo(text, start)) + 1

\* The signature each p formats
Signature(p, text, mt) ==
    LET name == CapStr(text, mt, 1)[1]
    IN  CASE p = 1 -> Some(Str("interface ") \o name)
          [] p = 2 -> Some(Str("type ") \o name \o Str(" = ") \o Trim(CapStr(text, mt, 2)[1]))
          [] p = 3 -> Some(Str("function ") \o name \o Str("(")
                                \o CapStr(text, mt, 2)[1] \o Str(")"))
          [] p = 4 -> IF CapStr(text, mt, 2) = None THEN None
                         ELSE Some(Str("const ") \o name \o Str(": ")
                                       \o Trim(CapStr(text, mt, 2)[1]))
          [] p = 5 -> Some(Str("class ") \o name)
          [] p = 6 -> Some(Str("enum ") \o name)

\* The Export pushed for one match of a p, given the doc comment found
MakeExport(p, path, text, mt, jsdoc) ==
    [name |-> CapStr(text, mt, 1)[1],
     kind |-> PassKinds[p],
     description |-> jsdoc.description,
     source_file |-> path,
     line |-> ExportLine(text, mt.start),
     signature |-> Signature(p, text, mt),
     params |-> IF p = 3
                THEN ParseFunctionParams(CapStr(text, mt, 2)[1], jsdoc.params)
                ELSE <<>>,
     returns |-> IF p = 3 /\ CapStr(text, mt, 3) # None
                 THEN Some(Trim(CapStr(text, mt, 3)[1])) ELSE None,
     examples |-> jsdoc.examples,
     deprecated |-> jsdoc.deprecated]

\* Every match of a pass from an offset on, as captures_iter yields them
RECURSIVE AllMatches(_, _, _)
AllMatches(re, text, from) ==
    LET found == FindAt(re, text, from)
    IN  IF found = None THEN <<>>
        ELSE <<found[1]>> \o AllMatches(re, text, found[1].end)

\* One match of a pass: the export it pushes, and whether the doc-comment
\* parser panics on the text before it
ScanMatch(p, path, text, mt) ==
    LET jsdoc == ExtractJsdoc(text, mt.start)
    IN  [panicked |-> jsdoc.panicked, export |-> MakeExport(p, path, text, mt, jsdoc)]

\* The matches of one pass, in textual order
PassScan(p, path, text) ==
    LET ms == AllMatches(PassRegex(p), text, 0)
    IN  [k \in 1..Len(ms) |-> ScanMatch(p, path, text, ms[k])]

\* The passes from pass p on, one after the other
RECURSIVE PassesFrom(_, _, _)
PassesFrom(p, path, text) ==
    IF p > 6 THEN <<>> ELSE PassScan(p, path, text) \o PassesFrom(p + 1, path, text)

\* extract_file as one value: Err for a file that cannot be read, a panic
\* when the parser panics at some match, else the exports of the six passes
ExtractFile(f) ==
    IF ~f.readable THEN [status |-> "err", exports |-> <<>>]
    ELSE LET scanned == PassesFrom(1, f.path, f.text)
         IN  IF \E k \in 1..Len(scanned) : scanned[k].panicked
             THEN [status |-> "panic", exports |-> <<>>]
             ELSE [status |-> "ok", exports |-> [k \in 1..Len(scanned) |-> scanned[k].export]]

(***************************************************************************)
(* extract_package (typescript.rs:17-85).  A package on disk is a record:  *)
(* files maps each path below the package root to what is there (whether   *)
(* it exists, whether it can be read, its text), manifest is package.json  *)
(* (missing, unreadable, malformed, or JSON with some of its string        *)
(* fields), readme and changelog are the optional texts.                   *)
(***************************************************************************)
EndsWith(s, suffix) ==
    Len(s) >= Len(suffix) /\ SubSeq(s, Len(s) - Len(suffix) + 1, Len(s)) = suffix

\* Path::extension: the text after the last '.' of the file name
Extension(path) ==
    LET name == Split(path, "/")[Len(Split(path, "/"))]
        dots == {i \in 2..Len(name) : name[i] = "."}
    IN  IF dots = {} THEN None ELSE Some(SubSeq(name, SetMax(dots) + 1, Len(name)))

\* glob::Pattern::matches for the two shapes of pattern the configuration
\* holds: **/*SUFFIX and **/DIR/**
GlobMatches(pattern, path) ==
    IF StartsWith(pattern, Str("**/*"))
    THEN EndsWith(path, SliceFrom(pattern, 4))
    ELSE /\ StartsWith(pattern, Str("**/")) /\ EndsWith(pattern, Str("/**"))
         /\ ContainsStr(Str("/") \o path, SubSeq(pattern, 3, Len(pattern) - 2))

\* is_excluded (typescript.rs:443-453)
is_excluded(path, patterns) ==
    \E k \in 1..Len(patterns) : GlobMatches(patterns[k], path)

\* The order in which WalkDir yields the entries below src/
WalkOrder == <<Str("src/index.ts"), Str("src/util.test.ts"), Str("src/util.ts")>>

\* src_dir.exists()
SrcDirExists(package) ==
    \E path \in DOMAIN package.files :
        package.files[path].exists /\ StartsWith(path, Str("src/"))

\* The files the filtered walk yields (typescript.rs:34-41)
WalkEntries(package, cfg) ==
    SelectSeq(WalkOrder,
              LAMBDA path :
                  /\ path \in DOMAIN package.files
                  /\ package.files[path].exists
                  /\ Extension(path) \in {Some(Str("ts")), Some(Str("tsx"))}
                  /\ ~is_excluded(path, cfg.exclude))

IndexTs == Str("src/index.ts")
UtilTs == Str("src/util.ts")
TestTs == Str("src/util.test.ts")

PkgTexts ==
    {Str("let z = 0;"), Str("export function f() {"),
     Str("export interface I { x: number }"), Str("export const c = 1;")}

\* What can be at a path: nothing, a file that cannot be read, a source text
FileStates(path) ==
    {[path |-> path, exists |-> FALSE, readable |-> FALSE, text |-> <<>>],
     [path |-> path, exists |-> TRUE, readable |-> FALSE, text |-> <<>>]}
        \cup {[path |-> path, exists |-> TRUE, readable |-> TRUE, text |-> t] : t \in PkgTexts}

\* extract_file applied to each file of a set: the files of a package do not
\* change while it is processed, so each is scanned once, when the package
\* is set up, and the scan of a file is looked up from then on
RECURSIVE ExtractEach(_)
ExtractEach(fs) ==
    IF fs = {} THEN <<>>
    ELSE LET f == CHOOSE x \in fs : TRUE
         IN  (f :> ExtractFile(f)) @@ ExtractEach(fs \ {f})

ExtractFileOf(f) == scans[f]

\* One iteration of the loop over the entry points (typescript.rs:23-29)
ScanEntryPoint(map, package, entry_point) ==
    IF ~(entry_point \in DOMAIN package.files /\ package.files[entry_point].exists)
    THEN [status |-> "ok", files |-> map]
    ELSE LET r == ExtractFileOf(package.files[entry_point])
         IN  IF r.status # "ok"
             THEN [status |-> r.status, files |-> map]
             ELSE [status |-> "ok", files |-> MapInsert(map, entry_point, r.exports)]

\* An iteration over a walked file that keeps a file without exports
ScanWalkedKeepsEmpty(map, package, file_path) ==
    IF file_path \in DOMAIN map
    THEN [status |-> "ok", files |-> map]
    ELSE LET r == ExtractFileOf(package.files[file_path])
         IN  IF r.status # "ok"
             THEN [status |-> r.status, files |-> map]
             ELSE [status |-> "ok", files |-> MapInsert(map, file_path, r.exports)]

\* One iteration of the loop over the walked files (typescript.rs:43-49)
ScanWalked(map, package, file_path) ==
    IF file_path \in DOMAIN map
    THEN [status |-> "ok", files |-> map]
    ELSE LET r == ExtractFileOf(package.files[file_path])
         IN  IF r.status # "ok"
             THEN [status |-> r.status, files |-> map]
             ELSE IF r.exports # <<>>
             THEN [status |-> "ok", files |-> MapInsert(map, file_path, r.exports)]
             ELSE [status |-> "ok", files |-> map]

\* The metadata a manifest holds
ManifestName == Str("@acedergren/core")
ManifestVersion == Str("1.2.3")
ManifestDescription == Str("Core.")

\* A reading of package.json that requires the file to exist
ReadManifestRequired(manifest) ==
    IF manifest.state # "json"
    THEN [status |-> "err", name |-> <<>>, version |-> <<>>, description |-> <<>>]
    ELSE [status |-> "ok",
          name |-> IF "name" \in manifest.fields THEN ManifestName ELSE <<>>,
          version |-> IF "version" \in manifest.fields THEN ManifestVersion ELSE <<>>,
          description |-> IF "description" \in manifest.fields
                          THEN ManifestDescription ELSE <<>>]

\* Reading package.json (typescript.rs:54-65)
ReadManifest(manifest) ==
    IF manifest.state = "missing"
    THEN [status |-> "ok", name |-> Str("unknown"), version |-> Str("0.0.0"),
          description |-> <<>>]
    ELSE IF manifest.state \in {"unreadable", "malformed"}
    THEN [status |-> "err", name |-> <<>>, version |-> <<>>, description |-> <<>>]
    ELSE [status |-> "ok",
          name |-> IF "name" \in manifest.fields THEN ManifestName ELSE Str("unknown"),
          version |-> IF "version" \in manifest.fields THEN ManifestVersion ELSE Str("0.0.0"),
          description |-> IF "description" \in manifest.fields
                          THEN ManifestDescription ELSE <<>>]

\* The orders in which a HashMap's values can be iterated
RECURSIVE Orders(_)
Orders(keys) ==
    IF keys = {} THEN {<<>>}
    ELSE UNION {{<<k>> \o rest : rest \in Orders(keys \ {k})} : k \in keys}

\* files.values().flatten().cloned().collect() for one iteration order
RECURSIVE Flatten(_, _)
Flatten(map, order) ==
    IF order = <<>> THEN <<>> ELSE map[Head(order)] \o Flatten(map, Tail(order))

\* The ExtractedDocs built at the end (typescript.rs:67-84)
Assemble(map, order, m, package, cfg) ==
    [package |-> [name |-> m.name, version |-> m.version, description |-> m.description,
                  kind |-> cfg.kind, internal_deps |-> <<>>,
                  exports |-> Flatten(map, order)],
     files |-> map,
     readme |-> package.readme,
     changelog |-> package.changelog]

\* The result of a call: Ok(docs), or Err with the step that failed
Ok(docs) == [status |-> "ok", cause |-> "", docs |-> Some(docs)]
Err(cause) == [status |-> "err", cause |-> cause, docs |-> None]

\* extract_package up to the point where the file map is iterated: the two
\* loops and the manifest
RECURSIVE EntryLoop(_, _, _, _), WalkLoop(_, _, _, _)
EntryLoop(map, package, entry_points, k) ==
    IF k > Len(entry_points) THEN [status |-> "ok", files |-> map]
    ELSE LET r == ScanEntryPoint(map, package, entry_points[k])
         IN  IF r.status # "ok" THEN r
             ELSE EntryLoop(r.files, package, entry_points, k + 1)

WalkLoop(map, package, paths, k) ==
    IF k > Len(paths) THEN [status |-> "ok", files |-> map]
    ELSE LET r == ScanWalked(map, package, paths[k])
         IN  IF r.status # "ok" THEN r
             ELSE WalkLoop(r.files, package, paths, k + 1)

\* An extractor that returns an ExtractedDocs without exports where a source
\* file cannot be extracted
ExtractPackageLenient(package, cfg) ==
    LET a == EntryLoop(<<>>, package, cfg.entry_points, 1)
        b == IF SrcDirExists(package)
             THEN WalkLoop(a.files, package, WalkEntries(package, cfg), 1)
             ELSE a
        kept == IF a.status = "ok" /\ b.status = "ok" THEN b.files ELSE <<>>
        m == ReadManifest(package.manifest)
    IN  IF m.status # "ok" THEN {Err("manifest")}
        ELSE {Ok(Assemble(kept, order, m, package, cfg)) : order \in Orders(DOMAIN kept)}

\* The results extract_package can return for a package: one per iteration
\* order of the file map when it succeeds
ExtractPackage(package, cfg) ==
    LET a == EntryLoop(<<>>, package, cfg.entry_points, 1)
        b == IF SrcDirExists(package)
             THEN WalkLoop(a.files, package, WalkEntries(package, cfg), 1)
             ELSE a
        m == ReadManifest(package.manifest)
    IN  IF a.status # "ok" THEN {Err("entry")}
        ELSE IF b.status # "ok" THEN {Err("walk")}
        ELSE IF m.status # "ok" THEN {Err("manifest")}
        ELSE {Ok(Assemble(b.files, order, m, package, cfg)) :
                  order \in Orders(DOMAIN b.files)}

(***************************************************************************)
(* The markdown generator (generators/markdown.rs).  A page is the text    *)
(* the source builds with push_str; a call's effect is the sequence of     *)
(* files it writes, each a path and a text.  Writes to the output          *)
(* directory are taken to succeed.                                         *)
(***************************************************************************)
\* String::push_str repeated: the pieces one after the other
Concat(pieces) == Join(pieces, <<>>)

\* usize formatted with {}
Digits == <<"0", "1", "2", "3", "4", "5", "6", "7", "8", "9">>
RECURSIVE Decimal(_)
Decimal(n) ==
    IF n < 10 THEN <<Digits[n + 1]>> ELSE Decimal(n \div 10) \o <<Digits[(n % 10) + 1]>>

\* str::replace: every occurrence, left to right, without overlap
RECURSIVE Replace(_, _, _)
Replace(s, from, to) ==
    LET occ == Occurrences(s, from)
    IN  IF from = <<>> \/ occ = {} THEN s
        ELSE SubSeq(s, 1, SetMin(occ)) \o to
                 \o Replace(SubSeq(s, SetMin(occ) + Len(from) + 1, Len(s)), from, to)

\* str::matches(pat).count(): the occurrences found left to right, without
\* overlap
RECURSIVE CountMatches(_, _)
CountMatches(s, pat) ==
    LET occ == Occurrences(s, pat)
    IN  IF occ = {} THEN 0
        ELSE 1 + CountMatches(SubSeq(s, SetMin(occ) + Len(pat) + 1, Len(s)), pat)

\* Path::join and Path::file_name
PathJoin(dir, name) == dir \o Str("/") \o name
FileName(path) == Split(path, "/")[Len(Split(path, "/"))]

\* The exports of one kind, in the order of the list
OfKind(export_list, kind) == SelectSeq(export_list, LAMBDA e : e.kind = kind)

\* The grave accent, U+0060
Backtick == <<"U+0060">>
Fence == Backtick \o Backtick \o Backtick

\* The two code points of the warning sign of the deprecation callout
WarningSign == <<"U+26A0", "U+FE0F">>

\* The rows of the parameters table (markdown.rs:272-279)
RECURSIVE ParamRows(_)
ParamRows(ps) ==
    IF ps = <<>> THEN <<>>
    ELSE Concat(<<Str("| ") \o Backtick, ps[1].name,
                  Backtick \o Str(" | ") \o Backtick, ps[1].type_annotation,
                  Backtick \o Str(" | "),
                  IF ps[1].optional THEN Str("No") ELSE Str("Yes"), Str(" | "),
                  IF ps[1].description = None THEN Str("-") ELSE ps[1].description[1],
                  Str(" |\n")>>)
             \o ParamRows(Tail(ps))

\* The fenced blocks of the examples (markdown.rs:289-293)
RECURSIVE ExampleBlocks(_)
ExampleBlocks(es) ==
    IF es = <<>> THEN <<>>
    ELSE Fence \o Str("typescript\n") \o es[1] \o Str("\n") \o Fence \o Str("\n\n")
             \o ExampleBlocks(Tail(es))

\* A template that puts the description before the deprecation callout
write_export_description_first(export) ==
    Concat(<<
        (Str("### ") \o Backtick) \o export.name \o (Backtick \o Str("\n\n")),
        IF export.description # None THEN export.description[1] \o Str("\n\n") ELSE <<>>,
        IF export.deprecated # None
        THEN Str("> ") \o WarningSign \o Str(" **Deprecated:** ") \o export.deprecated[1]
                 \o Str("\n\n")
        ELSE <<>>,
        IF export.signature # None
        THEN Fence \o Str("typescript\n") \o export.signature[1]
                 \o Str("\n") \o Fence \o Str("\n\n")
        ELSE <<>>,
        Concat(<<Str("*Defined in [") \o Backtick, FileName(export.source_file),
                 Backtick \o Str("]("),
                 export.source_file, Str(":"), Decimal(export.line), Str(")*\n\n")>>),
        IF export.params # <<>>
        THEN Concat(<<Str("**Parameters:**\n\n"),
                      Str("| Name | Type | Required | Description |\n"),
                      Str("|------|------|----------|-------------|\n"),
                      ParamRows(export.params), Str("\n")>>)
        ELSE <<>>,
        IF export.returns # None
        THEN (Str("**Returns:** ") \o Backtick) \o export.returns[1] \o (Backtick \o Str("\n\n"))
        ELSE <<>>,
        IF export.examples # <<>>
        THEN Str("**Example:**\n\n") \o ExampleBlocks(export.examples)
        ELSE <<>>,
        Str("---\n\n")>>)

\* write_export (markdown.rs:242-297): the text it appends
write_export(export) ==
    Concat(<<
        (Str("### ") \o Backtick) \o export.name \o (Backtick \o Str("\n\n")),
        IF export.deprecated # None
        THEN Str("> ") \o WarningSign \o Str(" **Deprecated:** ") \o export.deprecated[1]
                 \o Str("\n\n")
        ELSE <<>>,
        IF export.description # None THEN export.description[1] \o Str("\n\n") ELSE <<>>,
        IF export.signature # None
        THEN Fence \o Str("typescript\n") \o export.signature[1]
                 \o Str("\n") \o Fence \o Str("\n\n")
        ELSE <<>>,
        Concat(<<Str("*Defined in [") \o Backtick, FileName(export.source_file),
                 Backtick \o Str("]("),
                 export.source_file, Str(":"), Decimal(export.line), Str(")*\n\n")>>),
        IF export.params # <<>>
        THEN Concat(<<Str("**Parameters:**\n\n"),
                      Str("| Name | Type | Required | Description |\n"),
                      Str("|------|------|----------|-------------|\n"),
                      ParamRows(export.params), Str("\n")>>)
        ELSE <<>>,
        IF export.returns # None
        THEN (Str("**Returns:** ") \o Backtick) \o export.returns[1] \o (Backtick \o Str("\n\n"))
        ELSE <<>>,
        IF export.examples # <<>>
        THEN Str("**Example:**\n\n") \o ExampleBlocks(export.examples)
        ELSE <<>>,
        Str("---\n\n")>>)

\* The blocks of a list of exports, one after the other
RECURSIVE WriteExports(_)
WriteExports(export_list) ==
    IF export_list = <<>> THEN <<>>
    ELSE write_export(export_list[1]) \o WriteExports(Tail(export_list))

\* skip_duplicate_heading (markdown.rs:299-311)
skip_duplicate_heading(readme, package_name) ==
    LET lines == Lines(readme)
        heading == Trim(TrimStartMatches(lines[1], "#"))
    IN  IF lines # <<>>
           /\ (ContainsStr(heading, package_name) \/ ContainsStr(package_name, heading))
        THEN TrimStart(Join(Tail(lines), Str("\n")))
        ELSE readme

\* One row of the summary table, when the bucket is not empty
CountRow(label, bucket) ==
    IF bucket # <<>>
    THEN Str("| ") \o label \o Str(" | ") \o Decimal(Len(bucket)) \o Str(" |\n")
    ELSE <<>>

\* generate_package_index (markdown.rs:111-178)
generate_package_index(docs) ==
    Concat(<<
        Str("# ") \o docs.package.name \o Str("\n\n"),
        IF docs.package.description # <<>> THEN docs.package.description \o Str("\n\n") ELSE <<>>,
        Str("**Version:** ") \o docs.package.version \o Str("\n\n"),
        Str("## Installation\n\n"),
        (Fence \o Str("bash\n")),
        Str("npm install ") \o docs.package.name \o Str("\n"),
        Str("# or\n"),
        Str("pnpm add ") \o docs.package.name \o Str("\n"),
        (Fence \o Str("\n\n")),
        Str("## Exports\n\n"),
        Str("| Category | Count |\n"),
        Str("|----------|-------|\n"),
        CountRow(Str("Interfaces"), OfKind(docs.package.exports, "Interface")),
        CountRow(Str("Types"), OfKind(docs.package.exports, "Type")),
        CountRow(Str("Functions"), OfKind(docs.package.exports, "Function")),
        CountRow(Str("Classes"), OfKind(docs.package.exports, "Class")),
        Str("\n"),
        Str("## Documentation\n\n"),
        Str("- [Types Reference](./types.md)\n"),
        IF OfKind(docs.package.exports, "Function") # <<>>
        THEN Str("- [Functions Reference](./functions.md)\n") ELSE <<>>,
        Str("\n"),
        IF docs.readme # None
        THEN Str("---\n\n") \o skip_duplicate_heading(docs.readme[1], docs.package.name)
        ELSE <<>>>>)

\* One section of the types page, when the bucket is not empty
TypesSection(title, bucket) ==
    IF bucket # <<>> THEN title \o WriteExports(bucket) ELSE <<>>

\* generate_types_doc (markdown.rs:180-228)
generate_types_doc(docs) ==
    Concat(<<
        Str("# ") \o docs.package.name \o Str(" - Types\n\n"),
        TypesSection(Str("## Interfaces\n\n"), OfKind(docs.package.exports, "Interface")),
        TypesSection(Str("## Type Aliases\n\n"), OfKind(docs.package.exports, "Type")),
        TypesSection(Str("## Enums\n\n"), OfKind(docs.package.exports, "Enum")),
        TypesSection(Str("## Classes\n\n"), OfKind(docs.package.exports, "Class"))>>)

\* generate_functions_doc (markdown.rs:230-240)
generate_functions_doc(functions, package_name) ==
    Str("# ") \o package_name \o Str(" - Functions\n\n") \o WriteExports(functions)

\* A file written: its path and its text
Written(path, text) == [path |-> path, text |-> text]

\* A generator that writes the functions page for every package
generate_package_docs_every_page(output_dir, docs) ==
    <<Written(PathJoin(output_dir, Str("index.md")), generate_package_index(docs)),
      Written(PathJoin(output_dir, Str("types.md")), generate_types_doc(docs)),
      Written(PathJoin(output_dir, Str("functions.md")),
              generate_functions_doc(OfKind(docs.package.exports, "Function"),
                                     docs.package.name))>>

\* generate_package_docs (markdown.rs:10-40): the files it writes, in order
generate_package_docs(output_dir, docs) ==
    <<Written(PathJoin(output_dir, Str("index.md")), generate_package_index(docs))>>
        \o (IF docs.package.exports # <<>>
            THEN <<Written(PathJoin(output_dir, Str("types.md")), generate_types_doc(docs))>>
            ELSE <<>>)
        \o (IF OfKind(docs.package.exports, "Function") # <<>>
            THEN <<Written(PathJoin(output_dir, Str("functions.md")),
                           generate_functions_doc(OfKind(docs.package.exports, "Function"),
                                                  docs.package.name))>>
            ELSE <<>>)

\* The directory name of a package: the scope removed, hyphens to underscores
\* (generate.rs:168-170)
Slug(name) == Replace(Replace(name, Str("@acedergren/"), <<>>), Str("-"), Str("_"))

\* A link target that keeps the hyphens of the name
LinkSlugKeepsHyphens(name) == Replace(name, Str("@acedergren/"), <<>>)

\* The link target of a package in the API index (markdown.rs:72, 81, 90, 99)
LinkSlug(name) == Replace(Replace(name, Str("@acedergren/"), <<>>), Str("-"), Str("_"))

\* One section of the API index (markdown.rs:69-76), when a package has the kind
RECURSIVE IndexLinks(_)
IndexLinks(package_configs) ==
    IF package_configs = <<>> THEN <<>>
    ELSE Concat(<<Str("- ["), package_configs[1].name, Str("](./"),
                  LinkSlug(package_configs[1].name), Str("/)\n")>>)
             \o IndexLinks(Tail(package_configs))

IndexSection(title, package_configs) ==
    IF package_configs # <<>>
    THEN title \o IndexLinks(package_configs) \o Str("\n")
    ELSE <<>>

PackagesOfKind(docgen_config, kind) ==
    SelectSeq(docgen_config.packages, LAMBDA c : c.kind = kind)

\* generate_index (markdown.rs:43-109): the file it writes
generate_index(output_dir, docgen_config) ==
    Written(PathJoin(PathJoin(output_dir, Str("api")), Str("index.md")),
            Concat(<<
                Str("# API Reference\n\n"),
                Str("Complete API documentation for the Apple Auth Kit packages.\n\n"),
                IndexSection(Str("## Core Packages\n\n"), PackagesOfKind(docgen_config, "Core")),
                IndexSection(Str("## Database Adapters\n\n"),
                             PackagesOfKind(docgen_config, "Adapter")),
                IndexSection(Str("## Frontend SDKs\n\n"),
                             PackagesOfKind(docgen_config, "Frontend")),
                IndexSection(Str("## Mobile SDKs\n\n"), PackagesOfKind(docgen_config, "Mobile"))>>))

(***************************************************************************)
(* The generate command (commands/generate.rs).                            *)
(***************************************************************************)
\* process_package (generate.rs:156-176): what a call can do: the result of
\* the extraction and the files written when it succeeded
process_package(output, package, cfg) ==
    {[result |-> r,
      writes |-> IF r.status = "ok"
                 THEN generate_package_docs(
                          PathJoin(PathJoin(output, Str("api")), Slug(cfg.name)), r.docs[1])
                 ELSE <<>>] : r \in ExtractPackage(package, cfg)}

\* The configured packages the filter keeps (generate.rs:24-28), by position
FilterPackages(docgen_config, name_filter) ==
    SelectSeq([i \in 1..Len(docgen_config.packages) |-> i],
              LAMBDA i : name_filter = None
                             \/ ContainsStr(docgen_config.packages[i].name, name_filter[1]))

\* std::fs::write for each file of a sequence
RECURSIVE WriteAll(_, _)
WriteAll(fs, writes) ==
    IF writes = <<>> THEN fs
    ELSE WriteAll(MapInsert(fs, writes[1].path, writes[1].text), Tail(writes))

(***************************************************************************)
(* Each component at rest, for the specifications that do not run it.      *)
(***************************************************************************)
JsIdle ==
    /\ content = <<>>
    /\ export_start = 0
    /\ jlines = <<>>
    /\ jidx = 0
    /\ jd = JsDocNew
    /\ jpc = "idle"

PpIdle ==
    /\ params_str = <<>>
    /\ pjsdoc = <<>>
    /\ psegs = <<>>
    /\ params = <<>>
    /\ ppc = "idle"

NoFile == [path |-> <<>>, readable |-> FALSE, text |-> <<>>]

ScIdle ==
    /\ file = NoFile
    /\ pass = 0
    /\ search_from = 0
    /\ exports = <<>>
    /\ spc = "idle"

NoPackage == [files |-> <<>>, manifest |-> [state |-> "missing", fields |-> {}],
              readme |-> None, changelog |-> None]

NoConfig == [name |-> <<>>, kind |-> "Core", entry_points |-> <<>>, exclude |-> <<>>]

ExIdle ==
    /\ pkg = NoPackage
    /\ config = NoConfig
    /\ files = <<>>
    /\ entry_idx = 0
    /\ walk_idx = 0
    /\ meta = None
    /\ results = <<>>
    /\ epc = "idle"

NoScans == scans = <<>>

GenIdle ==
    /\ sources = <<>>
    /\ docgen = [packages |-> <<>>]
    /\ package_filter = None
    /\ gidx = 0
    /\ outfs = <<>>
    /\ written = {}
    /\ calls = <<>>
    /\ gresults = <<>>
    /\ gpc = "idle"

NoExport ==
    [name |-> <<>>, kind |-> "Const", description |-> None, source_file |-> <<>>,
     line |-> 1, signature |-> None, params |-> <<>>, returns |-> None,
     examples |-> <<>>, deprecated |-> None]

NoRender ==
    [job |-> "none", export |-> NoExport, readme |-> <<>>, name |-> <<>>, packages |-> <<>>]

RenderIdle ==
    /\ rinput = NoRender
    /\ routput = <<>>
    /\ rpc = "idle"

NoTree == [docs_exists |-> FALSE, pages |-> <<>>, mkdocs |-> "missing"]

\* ValidationResult as run creates it (validate.rs:17-22)
ValidationNew == [passed |-> TRUE, errors |-> <<>>, warnings |-> <<>>, info |-> <<>>]

ValIdle ==
    /\ vfs = NoTree
    /\ strict = FALSE
    /\ vidx = 0
    /\ vresult = ValidationNew
    /\ voutcome = "none"
    /\ vpc = "idle"

(***************************************************************************)
(* The doc-comment parser run line by line over bounded comments.          *)
(***************************************************************************)
MaxLines == 4

JsLineSet ==
    {Str(" * Adds."), Str(" * @param a x"), Str(" * @param {T} a y"),
     Str(" * @return"), Str(" * @returns s"), Str(" * @example"),
     Str(" * @deprecated d"), Str(" * @internal")}

JsComments == UNION {[1..n -> JsLineSet] : n \in 1..MaxLines}

JsShapes == {"closed", "unterminated", "unopened"}

JsDecl == Str("export function f() {")

\* The text before the declaration: the comment's lines between (or without)
\* the delimiters
JsBefore(ls, shape) ==
    (IF shape = "unopened" THEN <<>> ELSE Str("/**"))
        \o Join(ls, <<"\n">>)
        \o (IF shape = "unterminated" THEN Str("\n") ELSE Str("\n */\n"))

JsInit ==
    \E ls \in JsComments, shape \in JsShapes :
        /\ content = JsBefore(ls, shape) \o JsDecl
        /\ export_start = Len(JsBefore(ls, shape))
        /\ jlines = <<>>
        /\ jidx = 0
        /\ jd = JsDocNew
        /\ jpc = "find"
        /\ PpIdle
        /\ ScIdle
        /\ ExIdle
        /\ GenIdle
        /\ RenderIdle
        /\ NoScans
        /\ ValIdle

\* typescript.rs:350-353: locate the comment before the declaration
JsFind ==
    /\ jpc = "find"
    /\ LET c == FindComment(content, export_start)
       IN  IF c = None
           THEN jpc' = "done" /\ jlines' = <<>> /\ jidx' = 0
           ELSE jpc' = "loop" /\ jlines' = Lines(c[1]) /\ jidx' = 1
    /\ UNCHANGED <<content, export_start, jd, notJ>>

\* typescript.rs:360-389: one line of the loop
JsLine ==
    /\ jpc = "loop"
    /\ jidx <= Len(jlines)
    /\ jd' = JsDocLine(jd, jlines[jidx])
    /\ jidx' = jidx + 1
    /\ jpc' = IF jd'.panicked THEN "panicked" ELSE "loop"
    /\ UNCHANGED <<content, export_start, jlines, notJ>>

\* typescript.rs:391-401: after the loop
JsEnd ==
    /\ jpc = "loop"
    /\ jidx > Len(jlines)
    /\ jd' = JsDocFinish(jd)
    /\ jpc' = "done"
    /\ UNCHANGED <<content, export_start, jlines, jidx, notJ>>

JsNext == JsFind \/ JsLine \/ JsEnd

SpecJsDoc == JsInit /\ [][JsNext]_vars

\* The lines of the comment as the loop sees them
JsClean == [i \in 1..Len(jlines) |-> CleanLine(jlines[i])]
JsTagAt == {i \in 1..Len(jlines) : StartsWith(JsClean[i], Str("@"))}

JsEmptyResult(r) ==
    /\ r.description = None
    /\ r.params = <<>>
    /\ r.returns = None
    /\ r.examples = <<>>
    /\ r.deprecated = None

\* C2: extract_jsdoc returns a result for every text and offset, whatever the
\* comment's lines are (a tag line with nothing after the tag included), and
\* the result is empty when a delimiter is missing before the declaration.
C2_JsdocTotal ==
    /\ jpc # "panicked"
    /\ (jpc = "done" /\ FindComment(content, export_start) = None
            => JsEmptyResult(jd))

\* C9: when the last tag line of the comment is an example tag and a
\* non-empty non-tag line follows it, the last example entry is exactly the
\* lines after that tag, joined by newlines and trimmed.
C9_LastTagIsExample ==
    /\ JsTagAt # {}
    /\ StartsWith(JsClean[SetMax(JsTagAt)], Str("@example"))
    /\ \E i \in (SetMax(JsTagAt) + 1)..Len(jlines) : JsClean[i] # <<>>

C9_ExampleClosedAtEnd ==
    jpc = "done" /\ C9_LastTagIsExample
        => /\ jd.examples # <<>>
           /\ jd.examples[Len(jd.examples)] =
                  Trim(Join(SubSeq(JsClean, SetMax(JsTagAt) + 1, Len(jlines)), <<"\n">>))

\* The example tag lines, and for a tag line the lines that follow it up to
\* the next tag line of any kind
JsExampleTagAt == {i \in JsTagAt : StartsWith(JsClean[i], Str("@example"))}
JsBlockEnd(i) ==
    IF {t \in JsTagAt : t > i} = {} THEN Len(jlines) ELSE SetMin({t \in JsTagAt : t > i}) - 1
JsBlock(i) == SubSeq(JsClean, i + 1, JsBlockEnd(i))

\* The example tags that are followed by a non-empty example line, in order
JsProductive == {i \in JsExampleTagAt : \E k \in 1..Len(JsBlock(i)) : JsBlock(i)[k] # <<>>}
JsNth(set, n) == CHOOSE i \in set : Cardinality({t \in set : t <= i}) = n

\* C17: when a comment has several example tags, each followed by non-empty
\* example lines, the parsed comment has one example entry per tag, and the
\* n-th entry is made of the lines that follow the n-th tag and of no other.
C17_OneEntryPerExampleTag ==
    (/\ jpc = "done"
     /\ FindComment(content, export_start) # None
     /\ Cardinality(JsExampleTagAt) >= 2
     /\ JsExampleTagAt = JsProductive) =>
        /\ Len(jd.examples) = Cardinality(JsProductive)
        /\ \A n \in 1..Len(jd.examples) :
               jd.examples[n] = Trim(Join(JsBlock(JsNth(JsProductive, n)), <<"\n">>))

\* C18: while the lines are read, example-capture mode is on exactly when the
\* last tag line read so far is an example tag: any tag line that follows
\* (parameter, return, deprecation, example or unrecognized) ends the capture.
C18_CaptureEndsAtNextTag ==
    jpc = "loop" =>
        LET read == {t \in JsTagAt : t < jidx}
        IN  jd.in_example
                <=> (read # {} /\ StartsWith(JsClean[SetMax(read)], Str("@example")))

\* The name and the text of a parameter tag line: what follows the tag, a
\* leading brace-delimited type annotation dropped, split at the first space
JsParamRest(line) ==
    LET rest == Trim(SliceFrom(line, 6))
        close == {k \in 1..Len(rest) : rest[k] = "}"}
    IN  IF StartsWith(rest, Str("{")) /\ close # {}
        THEN Trim(SubSeq(rest, SetMin(close) + 1, Len(rest)))
        ELSE rest
JsParamAt == {i \in JsTagAt : /\ StartsWith(JsClean[i], Str("@param"))
                              /\ Len(SplitN2(JsParamRest(JsClean[i]), " ")) = 2}
JsParamName(i) == SplitN2(JsParamRest(JsClean[i]), " ")[1]
JsParamText(i) == SplitN2(JsParamRest(JsClean[i]), " ")[2]

\* C19: the parameter mapping has one key per parameter name of the comment's
\* parameter tag lines (a type annotation in braces is not the name), and the
\* value of a name is the text of the last tag line that names it.
C19_ParamKeyIsName ==
    (jpc = "done" /\ FindComment(content, export_start) # None) =>
        /\ DOMAIN jd.params = {JsParamName(i) : i \in JsParamAt}
        /\ \A i \in JsParamAt :
               (\A k \in JsParamAt : JsParamName(k) = JsParamName(i) => k <= i)
                   => jd.params[JsParamName(i)] = JsParamText(i)

(***************************************************************************)
(* The parameter parser run segment by segment over bounded raw lists.     *)
(***************************************************************************)
MaxParamLen == 4

ParamAlphabet == {"a", "?", ":", ",", " "}

ParamStrings == UNION {[1..n -> ParamAlphabet] : n \in 0..MaxParamLen}

\* The doc comment's parameter descriptions handed to the parser
ParamDocs == {<<>>, MapInsert(<<>>, Str("a"), Str("x"))}

PpInit ==
    /\ params_str \in ParamStrings
    /\ pjsdoc \in ParamDocs
    /\ psegs = <<>>
    /\ params = <<>>
    /\ ppc = "start"
    /\ JsIdle
    /\ ScIdle
    /\ ExIdle
    /\ GenIdle
    /\ RenderIdle
    /\ NoScans
    /\ ValIdle

\* typescript.rs:405-412: the early return and the split
PpStart ==
    /\ ppc = "start"
    /\ IF Trim(params_str) = <<>>
       THEN ppc' = "done" /\ psegs' = <<>>
       ELSE ppc' = "loop" /\ psegs' = Split(params_str, ",")
    /\ UNCHANGED <<params_str, pjsdoc, params, notP>>

\* typescript.rs:412-434: one segment of the loop
PpSegment ==
    /\ ppc = "loop"
    /\ psegs # <<>>
    /\ LET param == Trim(Head(psegs))
       IN  params' = IF param = <<>> THEN params
                     ELSE Append(params, ParseParam(param, pjsdoc))
    /\ psegs' = Tail(psegs)
    /\ UNCHANGED <<params_str, pjsdoc, ppc, notP>>

\* typescript.rs:436: the vector is returned
PpReturn ==
    /\ ppc = "loop"
    /\ psegs = <<>>
    /\ ppc' = "done"
    /\ UNCHANGED <<params_str, pjsdoc, psegs, params, notP>>

PpNext == PpStart \/ PpSegment \/ PpReturn

SpecParams == PpInit /\ [][PpNext]_vars

\* The raw segments that produce a parameter: those not empty once trimmed
PpRawSegments ==
    IF Trim(params_str) = <<>> THEN <<>>
    ELSE SelectSeq(Split(params_str, ","), LAMBDA g : Trim(g) # <<>>)

\* C10: every parameter segment yields one Parameter whose optional flag is
\* true exactly when the raw segment contains '?', and whose name holds no '?'.
C10_OptionalIffMarker ==
    ppc = "done"
        => /\ Len(params) = Len(PpRawSegments)
           /\ \A k \in 1..Len(params) :
                  /\ params[k].optional = ContainsChar(PpRawSegments[k], "?")
                  /\ ~ContainsChar(params[k].name, "?")

\* A list with an optional and a required parameter has been parsed
C10_Witness ==
    /\ ppc = "done"
    /\ \E k \in 1..Len(params) : params[k].optional /\ params[k].name = Str("a")
    /\ \E k \in 1..Len(params) : ~params[k].optional /\ params[k].name = Str("a")

(***************************************************************************)
(* The declaration scanner run match by match over bounded source files.   *)
(***************************************************************************)
MaxChunks == 2

\* The doc comment and the declaration of the round-trip scenario
AddComment ==
    Str("/** Adds two numbers.\n * @param a first number\n * @param b second number\n * @returns the sum\n */")
AddFunction == Str("export function add(a: number, b: number): number {")

\* A declaration with an indented doc comment on the line before it
NotedClass == Str("  /** Note. */\nexport class N {")

ScanChunks ==
    {AddComment, AddFunction, NotedClass,
     Str("export interface I { x: number }"),
     Str("export type T = number;"),
     Str("export const c = 1;"),
     Str("export class K {"),
     Str("export enum E {"),
     Str("export const enum F {"),
     Str("  /** Note. */"),
     Str("let z = 0;")}

ScanTexts == {Join(cs, <<"\n">>) : cs \in UNION {[1..n -> ScanChunks] : n \in 1..MaxChunks}}

ScanPath == Str("src/index.ts")

ScInit ==
    /\ \/ \E t \in ScanTexts : file = [path |-> ScanPath, readable |-> TRUE, text |-> t]
       \/ file = [path |-> ScanPath, readable |-> FALSE, text |-> <<>>]
    /\ pass = 0
    /\ search_from = 0
    /\ exports = <<>>
    /\ spc = "read"
    /\ JsIdle
    /\ PpIdle
    /\ ExIdle
    /\ GenIdle
    /\ RenderIdle
    /\ NoScans
    /\ ValIdle

\* typescript.rs:89-90: the file is read, or the error is returned
ScRead ==
    /\ spc = "read"
    /\ IF file.readable
       THEN spc' = "scan" /\ pass' = 1
       ELSE spc' = "failed" /\ pass' = pass
    /\ UNCHANGED <<file, search_from, exports, notS>>

\* A list of exports with one more export, placed by its line
InsertByLine(list, export) ==
    LET n == Cardinality({k \in 1..Len(list) : list[k].line <= export.line})
    IN  SubSeq(list, 1, n) \o <<export>> \o SubSeq(list, n + 1, Len(list))

\* One iteration of a pass's loop, were the list kept sorted by line
ScMatchSortedByLine ==
    /\ spc = "scan"
    /\ LET found == FindAt(PassRegex(pass), file.text, search_from)
       IN  /\ found # None
           /\ LET jsdoc == ExtractJsdoc(file.text, found[1].start)
              IN  IF jsdoc.panicked
                  THEN spc' = "panicked" /\ UNCHANGED <<exports, search_from>>
                  ELSE /\ exports' = InsertByLine(exports,
                              MakeExport(pass, file.path, file.text, found[1], jsdoc))
                       /\ search_from' = found[1].end
                       /\ spc' = spc
    /\ UNCHANGED <<file, pass, notS>>

\* One iteration of a pass's loop over captures_iter: the next match becomes
\* an Export
ScMatch ==
    /\ spc = "scan"
    /\ LET found == FindAt(PassRegex(pass), file.text, search_from)
       IN  /\ found # None
           /\ LET jsdoc == ExtractJsdoc(file.text, found[1].start)
              IN  IF jsdoc.panicked
                  THEN spc' = "panicked" /\ UNCHANGED <<exports, search_from>>
                  ELSE /\ exports' = Append(exports,
                              MakeExport(pass, file.path, file.text, found[1], jsdoc))
                       /\ search_from' = found[1].end
                       /\ spc' = spc
    /\ UNCHANGED <<file, pass, notS>>

\* A pass has no further match: the next pass starts, or the list is returned
ScPassEnd ==
    /\ spc = "scan"
    /\ FindAt(PassRegex(pass), file.text, search_from) = None
    /\ IF pass = 6
       THEN spc' = "done" /\ pass' = pass
       ELSE spc' = spc /\ pass' = pass + 1
    /\ search_from' = 0
    /\ UNCHANGED <<file, exports, notS>>

ScNext == ScRead \/ ScMatch \/ ScPassEnd

SpecScan == ScInit /\ [][ScNext]_vars

\* C1: the doc comment of the scenario followed on the next line by the
\* declaration of add yields exactly one export: Function add, parameters
\* a: number and b: number, both required, returns "number" and the
\* description "Adds two numbers.".
C1_AddScenario ==
    spc = "done" /\ file.text = AddComment \o <<"\n">> \o AddFunction
        => /\ Len(exports) = 1
           /\ exports[1].kind = "Function"
           /\ exports[1].name = Str("add")
           /\ Len(exports[1].params) = 2
           /\ exports[1].params[1].name = Str("a")
           /\ exports[1].params[1].type_annotation = Str("number")
           /\ exports[1].params[1].optional = FALSE
           /\ exports[1].params[2].name = Str("b")
           /\ exports[1].params[2].type_annotation = Str("number")
           /\ exports[1].params[2].optional = FALSE
           /\ exports[1].returns = Some(Str("number"))
           /\ exports[1].description = Some(Str("Adds two numbers."))

\* The minimal declarations of the six kinds, with the kind and the name each
\* declares
ScDeclarations ==
    {[text |-> Str("export interface I { x: number }"), kind |-> "Interface", name |-> Str("I")],
     [text |-> Str("export type T = number;"), kind |-> "Type", name |-> Str("T")],
     [text |-> AddFunction, kind |-> "Function", name |-> Str("add")],
     [text |-> Str("export const c = 1;"), kind |-> "Const", name |-> Str("c")],
     [text |-> Str("export class K {"), kind |-> "Class", name |-> Str("K")],
     [text |-> Str("export enum E {"), kind |-> "Enum", name |-> Str("E")],
     [text |-> Str("export const enum F {"), kind |-> "Enum", name |-> Str("F")]}
ScLines == Lines(file.text)
ScOnlyDeclarations ==
    \A i \in 1..Len(ScLines) : \E d \in ScDeclarations : d.text = ScLines[i]

\* C11: a file made only of minimal exported declarations yields one export
\* per declaration, of the declaration's kind and name, and nothing else: no
\* declaration is matched by the pattern of another kind (a const enum is one
\* Enum export and no Const export).
C11_OneExportOfMatchingKind ==
    (spc = "done" /\ ScOnlyDeclarations) =>
        /\ Len(exports) = Len(ScLines)
        /\ \A d \in ScDeclarations :
               Cardinality({k \in 1..Len(exports) :
                               exports[k].kind = d.kind /\ exports[k].name = d.name})
                   = Cardinality({i \in 1..Len(ScLines) : ScLines[i] = d.text})

\* A file holding only a const enum has been scanned to the end
C11_Witness ==
    /\ spc = "done"
    /\ file.text = Str("export const enum F {")
    /\ Len(exports) = 1
    /\ exports[1].kind = "Enum"

\* The position of a kind in the order of the six passes
ScKindRank(kind) ==
    CASE kind = "Interface" -> 1
      [] kind = "Type" -> 2
      [] kind = "Function" -> 3
      [] kind = "Const" -> 4
      [] kind = "Class" -> 5
      [] kind = "Enum" -> 6

\* C12: the export list is the exports of the interface, type, function,
\* const, class and enum passes, in that order, and the exports of one pass
\* are in textual order; the list is not sorted by line across the passes.
C12_PassOrderThenTextOrder ==
    \A j, k \in 1..Len(exports) :
        j < k =>
            /\ ScKindRank(exports[j].kind) <= ScKindRank(exports[k].kind)
            /\ exports[j].kind = exports[k].kind => exports[j].line < exports[k].line

\* A file whose enum precedes its interface has been scanned: the interface
\* comes first in the list although its line is the greater one
C12_Witness ==
    /\ spc = "done"
    /\ Len(exports) = 2
    /\ exports[1].kind = "Interface"
    /\ exports[2].kind = "Enum"
    /\ exports[1].line > exports[2].line

\* The offset at which the declaration of the match just consumed starts:
\* its export keyword, the last one before the end of the match
ScDeclStart ==
    SetMax({i \in 0..(search_from - 1) :
               i + 6 <= Len(file.text) /\ SubSeq(file.text, i + 1, i + 6) = Str("export")})
ScLast == exports[Len(exports)]

\* C20: the line of an export is the 1-based line on which its declaration
\* starts, one more than the line breaks before the declaration, whether or
\* not a doc comment precedes the declaration.
C20_LineIsDeclarationLine ==
    (spc = "scan" /\ search_from > 0) =>
        ScLast.line = 1 + count_lines(SliceTo(file.text, ScDeclStart))

\* Whether a doc comment stands directly before the declaration of the match
\* just consumed, with only white space between its end and the declaration
ScOwnComment ==
    LET before == SliceTo(file.text, ScDeclStart)
        kept == {i \in 1..Len(before) : before[i] \notin WhiteSpace}
    IN  /\ kept # {}
        /\ SetMax(kept) >= 2
        /\ SubSeq(before, SetMax(kept) - 1, SetMax(kept)) = Str("*/")

\* What the doc comment before the declaration holds
ScOwnDoc == ExtractJsdoc(file.text, ScDeclStart)

\* C26: the export pushed for a declaration has the description, examples,
\* deprecation and parameter descriptions of the doc comment that directly
\* precedes the declaration, and none of them when no doc comment directly
\* precedes it: the comment of an earlier declaration is not attached.
C26_OwnCommentOnly ==
    (spc = "scan" /\ search_from > 0) =>
        IF ScOwnComment
        THEN /\ ScLast.description = ScOwnDoc.description
             /\ ScLast.examples = ScOwnDoc.examples
             /\ ScLast.deprecated = ScOwnDoc.deprecated
             /\ \A k \in 1..Len(ScLast.params) :
                    ScLast.params[k].description
                        = MapGet(ScOwnDoc.params, ScLast.params[k].name)
        ELSE /\ ScLast.description = None
             /\ ScLast.examples = <<>>
             /\ ScLast.deprecated = None
             /\ \A k \in 1..Len(ScLast.params) : ScLast.params[k].description = None

(***************************************************************************)
(* The package extractor run step by step, repeatedly, over one unchanged  *)
(* package on disk.                                                        *)
(***************************************************************************)
MaxExtractRuns == 2

TestFile ==
    [path |-> TestTs, exists |-> TRUE, readable |-> TRUE, text |-> Str("export function t() {")]

Manifests ==
    {[state |-> st, fields |-> {}] : st \in {"missing", "unreadable", "malformed"}}
        \cup {[state |-> "json", fields |-> fs] :
                  fs \in SUBSET {"name", "version", "description"}}

DefaultExclude ==
    <<Str("**/*.test.ts"), Str("**/*.spec.ts"), Str("**/test/**"), Str("**/tests/**")>>

ExConfig ==
    [name |-> ManifestName, kind |-> "Core", entry_points |-> <<IndexTs>>,
     exclude |-> DefaultExclude]

\* The entry point listed once, or twice
ExConfigs == {ExConfig, [ExConfig EXCEPT !.entry_points = <<IndexTs, IndexTs>>]}

ExInit ==
    /\ \E i \in FileStates(IndexTs), u \in FileStates(UtilTs), mf \in Manifests :
           pkg = [files |-> (IndexTs :> i) @@ (UtilTs :> u) @@ (TestTs :> TestFile),
                  manifest |-> mf,
                  readme |-> Some(Str("# core\nText.")),
                  changelog |-> None]
    /\ config \in ExConfigs
    /\ files = <<>>
    /\ entry_idx = 0
    /\ walk_idx = 0
    /\ meta = None
    /\ results = <<>>
    /\ epc = "begin"
    /\ scans = ExtractEach(FileStates(IndexTs) \cup FileStates(UtilTs))
    /\ ValIdle
    /\ JsIdle
    /\ PpIdle
    /\ ScIdle
    /\ GenIdle
    /\ RenderIdle

\* typescript.rs:20: a call starts with an empty file map
ExBegin ==
    /\ epc = "begin"
    /\ files' = <<>>
    /\ entry_idx' = 1
    /\ walk_idx' = 0
    /\ meta' = None
    /\ epc' = "entries"
    /\ UNCHANGED <<pkg, config, results, notE>>

\* The outcome of a scanning step: the map is updated, or the call ends
ExScanned(r, cause) ==
    IF r.status = "ok"
    THEN files' = r.files /\ epc' = epc /\ results' = results
    ELSE IF r.status = "panic"
    THEN files' = files /\ epc' = "panicked" /\ results' = results
    ELSE files' = files /\ epc' = "failed" /\ results' = Append(results, Err(cause))

\* typescript.rs:23-29: one entry point
ExEntryPoint ==
    /\ epc = "entries"
    /\ entry_idx <= Len(config.entry_points)
    /\ ExScanned(ScanEntryPoint(files, pkg, config.entry_points[entry_idx]), "entry")
    /\ entry_idx' = entry_idx + 1
    /\ UNCHANGED <<pkg, config, walk_idx, meta, notE>>

\* typescript.rs:32-33: after the entry points, the walk starts if src/ exists
ExSrcDir ==
    /\ epc = "entries"
    /\ entry_idx > Len(config.entry_points)
    /\ IF SrcDirExists(pkg)
       THEN epc' = "walk" /\ walk_idx' = 1
       ELSE epc' = "manifest" /\ walk_idx' = walk_idx
    /\ UNCHANGED <<pkg, config, files, entry_idx, meta, results, notE>>

\* typescript.rs:43-49: one walked file
ExWalkFile ==
    /\ epc = "walk"
    /\ walk_idx <= Len(WalkEntries(pkg, config))
    /\ ExScanned(ScanWalked(files, pkg, WalkEntries(pkg, config)[walk_idx]), "walk")
    /\ walk_idx' = walk_idx + 1
    /\ UNCHANGED <<pkg, config, entry_idx, meta, notE>>

ExWalkDone ==
    /\ epc = "walk"
    /\ walk_idx > Len(WalkEntries(pkg, config))
    /\ epc' = "manifest"
    /\ UNCHANGED <<pkg, config, files, entry_idx, walk_idx, meta, results, notE>>

\* typescript.rs:54-65: the manifest
ExManifest ==
    /\ epc = "manifest"
    /\ LET m == ReadManifest(pkg.manifest)
       IN  IF m.status = "ok"
           THEN meta' = Some(m) /\ epc' = "assemble" /\ results' = results
           ELSE /\ meta' = meta
                /\ epc' = "failed"
                /\ results' = Append(results, Err("manifest"))
    /\ UNCHANGED <<pkg, config, files, entry_idx, walk_idx, notE>>

\* typescript.rs:67-84: the result is built, the file map iterated in one of
\* its orders
ExAssemble ==
    /\ epc = "assemble"
    /\ \E order \in Orders(DOMAIN files) :
           results' = Append(results, Ok(Assemble(files, order, meta[1], pkg, config)))
    /\ epc' = "done"
    /\ UNCHANGED <<pkg, config, files, entry_idx, walk_idx, meta, notE>>

\* The same package is extracted again
ExRunAgain ==
    /\ epc \in {"done", "failed"}
    /\ Len(results) < MaxExtractRuns
    /\ epc' = "begin"
    /\ UNCHANGED <<pkg, config, files, entry_idx, walk_idx, meta, results, notE>>

ExNext ==
    \/ ExBegin \/ ExEntryPoint \/ ExSrcDir \/ ExWalkFile \/ ExWalkDone
    \/ ExManifest \/ ExAssemble \/ ExRunAgain

SpecExtract == ExInit /\ [][ExNext]_vars

\* The metadata of a returned ExtractedDocs are the defaults
ExDefaultMeta(r) ==
    /\ r.docs[1].package.name = Str("unknown")
    /\ r.docs[1].package.version = Str("0.0.0")
    /\ r.docs[1].package.description = <<>>

\* C3: with a manifest that exists but is unreadable or malformed, every
\* call returns an ExtractedDocs with the default name, version and
\* description unless a source file failed; the manifest never fails the call.
C3_BadManifestNotFatal ==
    pkg.manifest.state \in {"unreadable", "malformed"} =>
        \A k \in 1..Len(results) :
            /\ results[k].cause # "manifest"
            /\ results[k].status = "ok" => ExDefaultMeta(results[k])

\* C4: with no manifest a call never fails at the manifest and what it
\* returns has name "unknown", version "0.0.0" and an empty description;
\* with a manifest that is JSON each of the three fields is the manifest's
\* value when present and its default when absent.
C4_ManifestDefaults ==
    \A k \in 1..Len(results) :
        LET r == results[k]
            has(field) == field \in pkg.manifest.fields
        IN  /\ pkg.manifest.state = "missing" =>
                /\ r.cause # "manifest"
                /\ r.status = "ok" => ExDefaultMeta(r)
            /\ pkg.manifest.state = "json" =>
                /\ r.cause # "manifest"
                /\ r.status = "ok" =>
                    /\ r.docs[1].package.name =
                           IF has("name") THEN ManifestName ELSE Str("unknown")
                    /\ r.docs[1].package.version =
                           IF has("version") THEN ManifestVersion ELSE Str("0.0.0")
                    /\ r.docs[1].package.description =
                           IF has("description") THEN ManifestDescription ELSE <<>>

\* C4 happens: a package without a manifest, with an entry point that holds
\* an export, has been extracted
C4_Witness ==
    /\ pkg.manifest.state = "missing"
    /\ Len(results) >= 1
    /\ results[1].status = "ok"
    /\ results[1].docs[1].package.exports # <<>>
    /\ ExDefaultMeta(results[1])

\* The walk reaches a file that is not an entry point and cannot be read,
\* while the entry point and the manifest are fine
ExWalkFileUnreadable ==
    /\ pkg.files[IndexTs].exists
    /\ pkg.files[IndexTs].readable
    /\ pkg.files[UtilTs].exists
    /\ ~pkg.files[UtilTs].readable
    /\ pkg.manifest.state \in {"missing", "json"}

\* C5: when a file found by the walk cannot be extracted, the call still
\* returns an ExtractedDocs that holds the exports of the other files.
C5_WalkFailureNotFatal ==
    ExWalkFileUnreadable =>
        \A k \in 1..Len(results) :
            /\ results[k].status = "ok"
            /\ results[k].docs[1].package.exports = ExtractFileOf(pkg.files[IndexTs]).exports

\* C7: two calls over the same unchanged package that both succeed return
\* package.exports in the same order.
C7_ExportOrderDeterministic ==
    \A j, k \in 1..Len(results) :
        (results[j].status = "ok" /\ results[k].status = "ok") =>
            results[j].docs[1].package.exports = results[k].docs[1].package.exports

\* The entry points of the configuration, and how often a record occurs in
\* a list
ExEntryPoints == {config.entry_points[i] : i \in 1..Len(config.entry_points)}
ExCount(list, e) == Cardinality({k \in 1..Len(list) : list[k] = e})

\* C13: in what a call returns, a file that is an entry point (even one
\* listed twice) and is also found by the walk is one key of the file map,
\* holding the exports of one scan of it; a walked file that is not an entry
\* point and has no export is not a key; and package.exports holds the
\* records of the map's values, each as often as the map holds it, and no
\* other record.
C13_DedupByFile ==
    \A r \in 1..Len(results) :
        results[r].status = "ok" =>
            LET docs == results[r].docs[1]
                all == docs.package.exports
            IN  /\ \A f \in DOMAIN docs.files :
                       /\ docs.files[f] = ExtractFileOf(pkg.files[f]).exports
                       /\ f \notin ExEntryPoints => docs.files[f] # <<>>
                       /\ \A k \in 1..Len(docs.files[f]) :
                              ExCount(all, docs.files[f][k])
                                  = ExCount(docs.files[f], docs.files[f][k])
                /\ \A k \in 1..Len(all) :
                       /\ all[k].source_file \in DOMAIN docs.files
                       /\ ExCount(docs.files[all[k].source_file], all[k]) >= 1

\* A package whose entry point is listed twice, is found again by the walk
\* and holds an export, with a walked file without exports beside it, has
\* been extracted: the entry point's export is there once
C13_Witness ==
    /\ config.entry_points = <<IndexTs, IndexTs>>
    /\ pkg.files[UtilTs].readable
    /\ pkg.files[UtilTs].text = Str("let z = 0;")
    /\ Len(results) >= 1
    /\ results[1].status = "ok"
    /\ DOMAIN results[1].docs[1].files = {IndexTs}
    /\ Len(results[1].docs[1].package.exports) = 1

(***************************************************************************)
(* The generate command run repeatedly into one output directory, over a   *)
(* configuration of two packages that docgen.yaml supplied.                *)
(***************************************************************************)
MaxGenRuns == 2

OutputPath == Str("docs")

FunctionText == Str("export function f() {")

GenConfig ==
    [packages |->
        <<[name |-> Str("@acedergren/core-auth"), kind |-> "Core",
           entry_points |-> <<IndexTs>>, exclude |-> DefaultExclude],
          [name |-> Str("@acedergren/oracle-adapter"), kind |-> "Adapter",
           entry_points |-> <<IndexTs>>, exclude |-> DefaultExclude]>>]

Missing(path) == [path |-> path, exists |-> FALSE, readable |-> FALSE, text |-> <<>>]
Unreadable(path) == [path |-> path, exists |-> TRUE, readable |-> FALSE, text |-> <<>>]
Source(path, text) == [path |-> path, exists |-> TRUE, readable |-> TRUE, text |-> text]

GenReadmes ==
    {None, Some(Str("# core\nText.")), Some(Str("See [Functions](./functions.md).\n"))}

\* The first package: an entry point and maybe one more source file
GenCorePackages ==
    {[files |-> (IndexTs :> i) @@ (UtilTs :> u),
      manifest |-> [state |-> "json", fields |-> {"name", "version", "description"}],
      readme |-> rd,
      changelog |-> None] :
        i \in {Unreadable(IndexTs), Source(IndexTs, FunctionText),
               Source(IndexTs, Str("export interface I { x: number }")),
               Source(IndexTs, Str("let z = 0;"))},
        u \in {Missing(UtilTs), Source(UtilTs, Str("export const c = 1;"))},
        rd \in GenReadmes}

\* The second package: an entry point only, no manifest
GenAdapterPackages ==
    {[files |-> (IndexTs :> i),
      manifest |-> [state |-> "missing", fields |-> {}],
      readme |-> None,
      changelog |-> None] :
        i \in {Unreadable(IndexTs), Source(IndexTs, FunctionText)}}

GenFilters == {None, Some(Str("core")), Some(Str("oracle")), Some(Str("zzz"))}

GenInit ==
    /\ sources \in {<<a, b>> : a \in GenCorePackages, b \in GenAdapterPackages}
    /\ docgen = GenConfig
    /\ package_filter \in GenFilters
    /\ gidx = 0
    /\ outfs = <<>>
    /\ written = {}
    /\ calls = <<>>
    /\ gresults = <<>>
    /\ gpc = "start"
    /\ scans = ExtractEach(FileStates(IndexTs) \cup FileStates(UtilTs))
    /\ ValIdle
    /\ JsIdle
    /\ PpIdle
    /\ ScIdle
    /\ ExIdle
    /\ RenderIdle

\* The packages the run in progress processes, by position in the configuration
Selected == FilterPackages(docgen, package_filter)

\* generate.rs:24-35: the filter; with nothing left the run returns Ok
GenStart ==
    /\ gpc = "start"
    /\ IF Selected = <<>>
       THEN gpc' = "done" /\ gidx' = gidx /\ gresults' = Append(gresults, "ok")
       ELSE gpc' = "packages" /\ gidx' = 1 /\ gresults' = gresults
    /\ UNCHANGED <<sources, docgen, package_filter, outfs, written, calls, notG>>

\* generate.rs:37-40: one package is processed; an error ends the run
GenProcessPackage ==
    /\ gpc = "packages"
    /\ gidx <= Len(Selected)
    /\ \E o \in process_package(OutputPath, sources[Selected[gidx]],
                                docgen.packages[Selected[gidx]]) :
           /\ calls' = Append(calls, [idx |-> Selected[gidx], result |-> o.result,
                                      writes |-> o.writes])
           /\ outfs' = WriteAll(outfs, o.writes)
           /\ written' = written \cup {o.writes[k].path : k \in 1..Len(o.writes)}
           /\ IF o.result.status = "ok"
              THEN gidx' = gidx + 1 /\ gpc' = gpc /\ gresults' = gresults
              ELSE gidx' = gidx /\ gpc' = "failed" /\ gresults' = Append(gresults, "err")
    /\ UNCHANGED <<sources, docgen, package_filter, notG>>

\* generate.rs:43-46: the API index is written and the run returns Ok
GenIndex ==
    /\ gpc = "packages"
    /\ gidx > Len(Selected)
    /\ outfs' = WriteAll(outfs, <<generate_index(OutputPath, docgen)>>)
    /\ written' = written \cup {generate_index(OutputPath, docgen).path}
    /\ gresults' = Append(gresults, "ok")
    /\ gpc' = "done"
    /\ UNCHANGED <<sources, docgen, gidx, package_filter, calls, notG>>

\* What the sources can be when the command is run again: unchanged, or the
\* declarations of the first package's entry point removed
GenEdits ==
    {sources, [sources EXCEPT ![1].files[IndexTs] = Source(IndexTs, Str("let z = 0;"))]}

\* The command is run again, with any filter, into the same output directory
GenRunAgain ==
    /\ gpc \in {"done", "failed"}
    /\ Len(gresults) < MaxGenRuns
    /\ sources' \in GenEdits
    /\ package_filter' \in GenFilters
    /\ gidx' = 0
    /\ written' = {}
    /\ calls' = <<>>
    /\ gpc' = "start"
    /\ UNCHANGED <<docgen, outfs, gresults, notG>>

GenNext == GenStart \/ GenProcessPackage \/ GenIndex \/ GenRunAgain

SpecGen == GenInit /\ [][GenNext]_vars

\* A declared entry point of a configured package exists and cannot be read
EntryPointUnreadable(i) ==
    \E k \in 1..Len(docgen.packages[i].entry_points) :
        LET e == docgen.packages[i].entry_points[k]
        IN  /\ e \in DOMAIN sources[i].files
            /\ sources[i].files[e].exists
            /\ ~sources[i].files[e].readable

\* The output directory of a configured package
PackageDir(i) == PathJoin(PathJoin(OutputPath, Str("api")), Slug(docgen.packages[i].name))

\* C6: when a declared entry point of a processed package exists and cannot
\* be read, the extraction returns an error and no ExtractedDocs, the run
\* ends with that error, no file of that package is written, no later
\* package is processed and the API index is not written.
C6_EntryPointFailureSurfaces ==
    \A k \in 1..Len(calls) :
        EntryPointUnreadable(calls[k].idx) =>
            /\ calls[k].result.status = "err"
            /\ calls[k].result.docs = None
            /\ calls[k].writes = <<>>
            /\ \A path \in written : ~StartsWith(path, PackageDir(calls[k].idx) \o Str("/"))
            /\ k = Len(calls)
            /\ gpc = "failed"
            /\ gresults # <<>>
            /\ gresults[Len(gresults)] = "err"
            /\ generate_index(OutputPath, docgen).path \notin written

\* C6 happens: the first of two selected packages has an unreadable entry
\* point and its processing has ended the run
C6_Witness ==
    /\ Len(Selected) = 2
    /\ Len(calls) = 1
    /\ EntryPointUnreadable(calls[1].idx)
    /\ calls[1].result.status = "err"
    /\ gpc = "failed"

\* The Function exports of an ExtractedDocs, and the pages of a call
HasFunction(docs) == OfKind(docs.package.exports, "Function") # <<>>
WritesPage(writes, name) == \E k \in 1..Len(writes) : FileName(writes[k].path) = name
IndexPage(writes) ==
    (CHOOSE w \in {writes[k] : k \in 1..Len(writes)} : FileName(w.path) = Str("index.md")).text
FunctionsLink == Str("(./functions.md)")

\* The lines under the heading "## Documentation" of an index page, up to
\* the blank line that ends them
DocumentationSection(page) ==
    LET heading == Str("## Documentation\n\n")
        rest == SliceFrom(page, SetMin(Occurrences(page, heading)) + Len(heading))
    IN  SliceTo(rest, SetMin(Occurrences(rest, Str("\n\n"))))

\* The generate_package_docs calls of the run in progress
GeneratorCalls == {k \in 1..Len(calls) : calls[k].result.status = "ok"}

ApiIndexPath == PathJoin(PathJoin(OutputPath, Str("api")), Str("index.md"))
ApiIndexLinks(i) ==
    ContainsStr(outfs[ApiIndexPath],
                Str("](./") \o Slug(docgen.packages[i].name) \o Str("/)"))

\* C22: when a run has ended with success and has written the API index,
\* the index page of every package the API index links was written by that
\* run, with or without a package filter.
C22_LinkedPackagesWritten ==
    (gpc = "done" /\ ApiIndexPath \in written) =>
        \A i \in 1..Len(docgen.packages) :
            ApiIndexLinks(i) => PathJoin(PackageDir(i), Str("index.md")) \in written

\* C23: the Documentation section of the index page a generate_package_docs
\* call writes links ./types.md only if the call wrote types.md and
\* ./functions.md only if the call wrote functions.md, also for a package
\* without exports.
C23_LinkedPagesWritten ==
    \A k \in GeneratorCalls :
        LET section == DocumentationSection(IndexPage(calls[k].writes))
        IN  /\ ContainsStr(section, Str("(./types.md)"))
                   => WritesPage(calls[k].writes, Str("types.md"))
            /\ ContainsStr(section, FunctionsLink)
                   => WritesPage(calls[k].writes, Str("functions.md"))

\* The text of a page of a call, empty when the call did not write the page
PageText(writes, name) ==
    IF WritesPage(writes, name)
    THEN (CHOOSE w \in {writes[k] : k \in 1..Len(writes)} : FileName(w.path) = name).text
    ELSE <<>>

\* How many export blocks with the heading of an export the pages of a call
\* hold
BlockCount(writes, export) ==
    LET heading == Str("### ") \o Backtick \o export.name \o Backtick \o Str("\n")
    IN  CountMatches(PageText(writes, Str("types.md")), heading)
            + CountMatches(PageText(writes, Str("functions.md")), heading)

\* C24: every export of the package model is rendered as exactly one export
\* block on types.md or functions.md, whatever its kind, and types.md is not
\* written with a title and no export block.
C24_EveryExportRenderedOnce ==
    \A k \in GeneratorCalls :
        LET all == calls[k].result.docs[1].package.exports
        IN  /\ \A n \in 1..Len(all) :
                   BlockCount(calls[k].writes, all[n])
                       = Cardinality({j \in 1..Len(all) : all[j].name = all[n].name})
            /\ WritesPage(calls[k].writes, Str("types.md"))
                   => ContainsStr(PageText(calls[k].writes, Str("types.md")), Str("### "))

\* C25: whatever runs came before, while a run is in progress or has ended,
\* the output directory of a package the run has rendered holds functions.md
\* only if the model of this run has a Function export and types.md only if
\* it has an export.
C25_NoStalePages ==
    \A k \in GeneratorCalls :
        LET dir == PackageDir(calls[k].idx)
            docs == calls[k].result.docs[1]
        IN  /\ PathJoin(dir, Str("functions.md")) \in DOMAIN outfs => HasFunction(docs)
            /\ PathJoin(dir, Str("types.md")) \in DOMAIN outfs => docs.package.exports # <<>>

(***************************************************************************)
(* The markdown renderer called on bounded arguments: the export-block     *)
(* template on one export, the package index page on a package that has a  *)
(* README, the API index on a configuration.                               *)
(***************************************************************************)
MaxExamples == 2
MaxPackages == 3

\* The parameters an export can have: required or optional, described or not
RenderParams ==
    LET a == [name |-> Str("a"), type_annotation |-> Str("number"),
              optional |-> FALSE, description |-> None]
        b == [name |-> Str("b"), type_annotation |-> Str("string"),
              optional |-> TRUE, description |-> Some(Str("second"))]
    IN  {<<>>, <<a>>, <<b>>, <<a, b>>}

RenderExports ==
    {[name |-> Str("f"), kind |-> "Function", description |-> ds,
      source_file |-> IndexTs, line |-> 12, signature |-> sg, params |-> ps,
      returns |-> rt, examples |-> [i \in 1..n |-> Str("f(1)")], deprecated |-> dp] :
        ds \in {None, Some(Str("Adds."))},
        sg \in {None, Some(Str("function f(a)"))},
        ps \in RenderParams,
        rt \in {None, Some(Str("number"))},
        n \in 0..MaxExamples,
        dp \in {None, Some(Str("use g"))}}

\* The README texts and the package names the index page is rendered for
RenderReadmes ==
    {Str("# core\nText."), Str("# @acedergren/core docs\nText."), Str("# Other\nText."),
     Str("core\nText."), Str("Text.\n# core"), Str("Other\nText."), Str("# core")}
RenderNames == {Str("@acedergren/core"), Str("core")}

\* The package configurations the API index is rendered for
RenderPackages ==
    {[name |-> Str("@acedergren/core-auth"), kind |-> "Core",
      entry_points |-> <<IndexTs>>, exclude |-> <<>>],
     [name |-> Str("@acedergren/core-types"), kind |-> "Core",
      entry_points |-> <<IndexTs>>, exclude |-> <<>>],
     [name |-> Str("@acedergren/oracle-adapter"), kind |-> "Adapter",
      entry_points |-> <<IndexTs>>, exclude |-> <<>>],
     [name |-> Str("@acedergren/svelte-sdk"), kind |-> "Frontend",
      entry_points |-> <<IndexTs>>, exclude |-> <<>>],
     [name |-> Str("ios-sdk"), kind |-> "Mobile",
      entry_points |-> <<IndexTs>>, exclude |-> <<>>]}
RenderConfigs == UNION {[1..n -> RenderPackages] : n \in 0..MaxPackages}

RenderInit ==
    /\ \/ \E e \in RenderExports : rinput = [NoRender EXCEPT !.job = "export", !.export = e]
       \/ \E rd \in RenderReadmes, nm \in RenderNames :
              rinput = [NoRender EXCEPT !.job = "readme", !.readme = rd, !.name = nm]
       \/ \E ps \in RenderConfigs :
              rinput = [NoRender EXCEPT !.job = "index", !.packages = ps]
    /\ routput = <<>>
    /\ rpc = "ready"
    /\ JsIdle
    /\ PpIdle
    /\ ScIdle
    /\ ExIdle
    /\ GenIdle
    /\ NoScans
    /\ ValIdle

\* write_export on one export
RenderExport ==
    /\ rpc = "ready"
    /\ rinput.job = "export"
    /\ routput' = write_export(rinput.export)
    /\ rpc' = "done"
    /\ UNCHANGED <<rinput, notR>>

\* The ExtractedDocs of a package without exports that has a README
RenderDocs(package_name, readme) ==
    [package |-> [name |-> package_name, version |-> Str("1.0.0"), description |-> <<>>,
                  kind |-> "Core", internal_deps |-> <<>>, exports |-> <<>>],
     files |-> <<>>,
     readme |-> readme,
     changelog |-> None]

\* generate_package_index on a package with a README
RenderReadme ==
    /\ rpc = "ready"
    /\ rinput.job = "readme"
    /\ routput' = generate_package_index(RenderDocs(rinput.name, Some(rinput.readme)))
    /\ rpc' = "done"
    /\ UNCHANGED <<rinput, notR>>

\* generate_index on a configuration: the text of the file it writes
RenderIndex ==
    /\ rpc = "ready"
    /\ rinput.job = "index"
    /\ routput' = generate_index(OutputPath, [packages |-> rinput.packages]).text
    /\ rpc' = "done"
    /\ UNCHANGED <<rinput, notR>>

RenderNext == RenderExport \/ RenderReadme \/ RenderIndex

SpecRender == RenderInit /\ [][RenderNext]_vars

\* The elements of an export block, each empty when the export lacks it
BlockHeading(e) == Str("### ") \o Backtick \o e.name \o Backtick \o Str("\n\n")
BlockCallout(e) ==
    IF e.deprecated = None THEN <<>>
    ELSE Str("> ") \o WarningSign \o Str(" **Deprecated:** ") \o e.deprecated[1] \o Str("\n\n")
BlockDescription(e) ==
    IF e.description = None THEN <<>> ELSE e.description[1] \o Str("\n\n")
BlockFenced(text) == Fence \o Str("typescript\n") \o text \o Str("\n") \o Fence \o Str("\n\n")
BlockSignature(e) == IF e.signature = None THEN <<>> ELSE BlockFenced(e.signature[1])
BlockRow(p) ==
    Str("| ") \o Backtick \o p.name \o Backtick \o Str(" | ")
        \o Backtick \o p.type_annotation \o Backtick \o Str(" | ")
        \o (IF p.optional THEN Str("No") ELSE Str("Yes")) \o Str(" | ")
        \o (IF p.description = None THEN Str("-") ELSE p.description[1]) \o Str(" |\n")
BlockTable(e) ==
    IF e.params = <<>> THEN <<>>
    ELSE Str("**Parameters:**\n\n")
             \o Str("| Name | Type | Required | Description |\n")
             \o Str("|------|------|----------|-------------|\n")
             \o Concat([k \in 1..Len(e.params) |-> BlockRow(e.params[k])]) \o Str("\n")
BlockReturns(e) ==
    IF e.returns = None THEN <<>>
    ELSE Str("**Returns:** ") \o Backtick \o e.returns[1] \o Backtick \o Str("\n\n")
BlockExamples(e) ==
    IF e.examples = <<>> THEN <<>>
    ELSE Str("**Example:**\n\n")
             \o Concat([k \in 1..Len(e.examples) |-> BlockFenced(e.examples[k])])
BlockRule == Str("---\n\n")
BlockLocation(e) ==
    Str("*Defined in [") \o Backtick \o FileName(e.source_file) \o Backtick \o Str("](")
        \o e.source_file \o Str(":") \o Decimal(e.line) \o Str(")*\n\n")

\* C14 as stated: an export block is the heading, the deprecation callout if
\* present, the description if present, the fenced signature if present, the
\* parameters table if there is a parameter, the returns line if present,
\* one fenced block per example and the horizontal rule, in this order and
\* nothing else.
C14_BlockIsListedElements ==
    (rpc = "done" /\ rinput.job = "export") =>
        routput = Concat(<<BlockHeading(rinput.export), BlockCallout(rinput.export),
                           BlockDescription(rinput.export), BlockSignature(rinput.export),
                           BlockTable(rinput.export), BlockReturns(rinput.export),
                           BlockExamples(rinput.export), BlockRule>>)

\* C14: an export block is the heading, the deprecation callout if present,
\* the description if present, the fenced signature if present, the line
\* that names the source location, the parameters table if there is a
\* parameter (Required is "No" exactly for an optional parameter, Description
\* is "-" when missing), the returns line if present, one fenced block per
\* example and the horizontal rule, in this order, the rule last.
C14_BlockIsListedElementsAndLocation ==
    (rpc = "done" /\ rinput.job = "export") =>
        routput = Concat(<<BlockHeading(rinput.export), BlockCallout(rinput.export),
                           BlockDescription(rinput.export), BlockSignature(rinput.export),
                           BlockLocation(rinput.export),
                           BlockTable(rinput.export), BlockReturns(rinput.export),
                           BlockExamples(rinput.export), BlockRule>>)

\* An export that has every element, an optional and a required parameter
\* and two examples, has been rendered
C14_Witness ==
    /\ rpc = "done"
    /\ rinput.job = "export"
    /\ rinput.export.deprecated # None
    /\ rinput.export.description # None
    /\ rinput.export.signature # None
    /\ Len(rinput.export.params) = 2
    /\ rinput.export.returns # None
    /\ Len(rinput.export.examples) = 2
    /\ routput # <<>>

\* The first line of a README, whether it is a heading, the heading's text,
\* and the README without its first line
ReadmeFirstLine(readme) == Lines(readme)[1]
ReadmeHeadingOverlaps(readme, package_name) ==
    /\ readme # <<>>
    /\ StartsWith(ReadmeFirstLine(readme), Str("#"))
    /\ LET text == Trim(TrimStartMatches(ReadmeFirstLine(readme), "#"))
       IN  ContainsStr(text, package_name) \/ ContainsStr(package_name, text)
ReadmeRest(readme) ==
    IF ContainsChar(readme, "\n") THEN SplitN2(readme, "\n")[2] ELSE <<>>

\* What the index page holds before the README
RenderPageHead == generate_package_index(RenderDocs(rinput.name, None)) \o Str("---\n\n")

\* C15: the index page of a package with a README ends with the README
\* without its first line when that line is a heading whose text contains
\* the package name or is contained in it, and with the unchanged README in
\* every other case.
C15_ReadmeStrippedOnlyOfOverlappingHeading ==
    (rpc = "done" /\ rinput.job = "readme") =>
        routput = RenderPageHead
                      \o (IF ReadmeHeadingOverlaps(rinput.readme, rinput.name)
                          THEN ReadmeRest(rinput.readme)
                          ELSE rinput.readme)

\* The kinds in the order of the sections, the heading line of each, and the
\* link line of a package whose target is the directory process_package
\* writes the package's pages to
IndexKinds == <<"Core", "Adapter", "Frontend", "Mobile">>
IndexTitle(kind) ==
    CASE kind = "Core" -> Str("## Core Packages")
      [] kind = "Adapter" -> Str("## Database Adapters")
      [] kind = "Frontend" -> Str("## Frontend SDKs")
      [] kind = "Mobile" -> Str("## Mobile SDKs")
IndexLinkLine(c) == Str("- [") \o c.name \o Str("](./") \o Slug(c.name) \o Str("/)")

\* The lines of the rendered API index, where the heading of a kind stands,
\* and the non-empty lines between a heading and the next one
IndexLines == Lines(routput)
IndexHeadAt(kind) == {i \in 1..Len(IndexLines) : IndexLines[i] = IndexTitle(kind)}
IndexSectionLines(kind) ==
    LET head == SetMin(IndexHeadAt(kind))
        later == {i \in (head + 1)..Len(IndexLines) : StartsWith(IndexLines[i], Str("## "))}
        last == IF later = {} THEN Len(IndexLines) ELSE SetMin(later) - 1
    IN  SelectSeq(SubSeq(IndexLines, head + 1, last), LAMBDA l : l # <<>>)
IndexConfigured(kind) == SelectSeq(rinput.packages, LAMBDA c : c.kind = kind)

\* C16: the API index has the heading of a kind once when a configured
\* package has the kind and not at all otherwise; the headings stand in the
\* order Core, Adapter, Frontend, Mobile; under a heading stand the links of
\* the packages of the kind, one per package, in configuration order, each
\* to the directory named like process_package names the package's output
\* directory; and the page has no other link, so every package is listed
\* once.
C16_IndexListsPackagesByKind ==
    (rpc = "done" /\ rinput.job = "index") =>
        /\ \A n \in 1..4 :
               LET kind == IndexKinds[n]
               IN  IF IndexConfigured(kind) = <<>>
                   THEN IndexHeadAt(kind) = {}
                   ELSE /\ Cardinality(IndexHeadAt(kind)) = 1
                        /\ IndexSectionLines(kind)
                               = [k \in 1..Len(IndexConfigured(kind)) |->
                                      IndexLinkLine(IndexConfigured(kind)[k])]
        /\ \A m, n \in 1..4 :
               (m < n /\ IndexHeadAt(IndexKinds[m]) # {} /\ IndexHeadAt(IndexKinds[n]) # {})
                   => SetMin(IndexHeadAt(IndexKinds[m])) < SetMin(IndexHeadAt(IndexKinds[n]))
        /\ Cardinality({i \in 1..Len(IndexLines) : StartsWith(IndexLines[i], Str("- ["))})
               = Len(rinput.packages)

\* A configuration that lists a Mobile package before two Core packages with
\* hyphens in their names has been rendered
C16_Witness ==
    /\ rpc = "done"
    /\ rinput.job = "index"
    /\ Len(rinput.packages) = 3
    /\ rinput.packages[1].kind = "Mobile"
    /\ rinput.packages[2].name = Str("@acedergren/core-types")
    /\ rinput.packages[3].name = Str("@acedergren/core-auth")
    /\ IndexSectionLines("Core")
           = <<Str("- [@acedergren/core-types](./core_types/)"),
               Str("- [@acedergren/core-auth](./core_auth/)")>>

(***************************************************************************)
(* The validate command (commands/validate.rs).                            *)
(***************************************************************************)
\* A ValidationIssue (types.rs:128-145)
Issue(severity, message, path, line_no) ==
    [severity |-> severity, message |-> message, file |-> path, line |-> line_no]

PushError(result, issue) == [result EXCEPT !.errors = Append(@, issue)]
PushWarning(result, issue) == [result EXCEPT !.warnings = Append(@, issue)]

\* The warnings for the lines that hold TODO or FIXME (validate.rs:98-108)
RECURSIVE TodoWarnings(_, _, _, _)
TodoWarnings(result, path, lines, i) ==
    IF i > Len(lines) THEN result
    ELSE TodoWarnings(
             IF ContainsStr(lines[i], Str("TODO")) \/ ContainsStr(lines[i], Str("FIXME"))
             THEN PushWarning(result, Issue("Warning",
                                  Str("Found TODO/FIXME: ") \o Trim(lines[i]), path, Some(i)))
             ELSE result,
             path, lines, i + 1)

\* validate_markdown_file (validate.rs:71-124) on a file that was read
MarkdownChecks(page, result) ==
    LET lines == Lines(page.text)
        blank == Trim(page.text) = <<>>
        r1 == IF blank
              THEN PushWarning(result, Issue("Warning", Str("Empty documentation file"),
                                             page.path, None))
              ELSE result
        has_title == \E i \in 1..Len(lines) : StartsWith(lines[i], Str("# "))
        r2 == IF ~has_title /\ ~blank
              THEN PushWarning(r1, Issue("Warning", Str("Missing H1 title"), page.path, None))
              ELSE r1
        r3 == TodoWarnings(r2, page.path, lines, 1)
    IN  IF CountMatches(page.text, Fence) % 2 # 0
        THEN PushError(r3, Issue("Error", Str("Unmatched code block delimiter"),
                                 page.path, None))
        ELSE r3

\* validate_markdown_file: Err when the file cannot be read
validate_markdown_file(page, result) ==
    IF ~page.readable THEN [status |-> "err", result |-> result]
    ELSE [status |-> "ok", result |-> MarkdownChecks(page, result)]

\* Whether a path below the docs directory is a file, or a directory
PageExists(tree, path) == \E i \in 1..Len(tree.pages) : tree.pages[i].path = path
DirExists(tree, path) ==
    path = <<>> \/ \E i \in 1..Len(tree.pages) : StartsWith(tree.pages[i].path, path \o Str("/"))

\* check_required_files (validate.rs:127-147)
required_files ==
    <<Str("index.md"), Str("getting-started/installation.md"),
      Str("getting-started/quickstart.md")>>
RECURSIVE check_required_files(_, _, _)
check_required_files(tree, result, i) ==
    IF i > Len(required_files) THEN result
    ELSE check_required_files(
             tree,
             IF ~PageExists(tree, required_files[i])
             THEN PushError(result, Issue("Error",
                                Str("Required file missing: ") \o required_files[i],
                                required_files[i], None))
             ELSE result,
             i + 1)

\* \[([^\]]+)\]\(([^)]+)\) (validate.rs:151)
link_regex ==
    Cat(<<Lit("["), Grp(1, Plus(NotCh("]"))), Lit("]("), Grp(2, Plus(NotCh(")"))), Lit(")")>>)

\* Path::parent, Path::join and Path::with_extension on paths below docs
ParentDir(path) ==
    IF ContainsChar(path, "/") THEN SubSeq(path, 1, SetMax({i \in 1..Len(path) : path[i] = "/"}) - 1)
    ELSE <<>>
JoinBelow(dir, rel) ==
    LET plain == IF StartsWith(rel, Str("./")) THEN SliceFrom(rel, 2) ELSE rel
    IN  IF dir = <<>> THEN plain ELSE dir \o Str("/") \o plain
WithExtensionMd(path) ==
    LET name == FileName(path)
        dots == {i \in 2..Len(name) : name[i] = "."}
        stem == IF dots = {} THEN name ELSE SubSeq(name, 1, SetMax(dots) - 1)
    IN  SubSeq(path, 1, Len(path) - Len(name)) \o stem \o Str(".md")

\* Whether the target of a link exists (validate.rs:169-183)
LinkTargetExists(tree, page, link) ==
    LET target == IF StartsWith(link, Str("/"))
                  THEN SliceFrom(link, 1)
                  ELSE JoinBelow(ParentDir(page.path), link)
        target_path == Split(target, "#")[1]
    IN  \/ PageExists(tree, target_path)
        \/ DirExists(tree, target_path)
        \/ PageExists(tree, WithExtensionMd(target_path))

\* The warnings for the links of one file (validate.rs:162-193)
RECURSIVE LinkWarnings(_, _, _, _, _)
LinkWarnings(tree, page, result, ms, i) ==
    IF i > Len(ms) THEN result
    ELSE LET link == CapStr(page.text, ms[i], 2)[1]
         IN  LinkWarnings(
                 tree, page,
                 IF \/ StartsWith(link, Str("http"))
                    \/ StartsWith(link, Str("#"))
                    \/ LinkTargetExists(tree, page, link)
                 THEN result
                 ELSE PushWarning(result, Issue("Warning",
                                      Str("Broken internal link: ") \o link, page.path, None)),
                 ms, i + 1)

\* check_internal_links (validate.rs:150-197): Err when a file cannot be read
RECURSIVE check_internal_links(_, _, _)
check_internal_links(tree, result, i) ==
    IF i > Len(tree.pages) THEN [status |-> "ok", result |-> result]
    ELSE IF ~tree.pages[i].readable THEN [status |-> "err", result |-> result]
    ELSE check_internal_links(
             tree,
             LinkWarnings(tree, tree.pages[i], result,
                          AllMatches(link_regex, tree.pages[i].text, 0), 1),
             i + 1)

\* validate_mkdocs_config (validate.rs:200-230)
validate_mkdocs_config(tree, result) ==
    CASE tree.mkdocs = "missing" ->
             [status |-> "ok",
              result |-> PushError(result, Issue("Error", Str("mkdocs.yml not found"),
                                                 Str("mkdocs.yml"), None))]
      [] tree.mkdocs = "unreadable" -> [status |-> "err", result |-> result]
      [] tree.mkdocs = "invalid" ->
             [status |-> "ok",
              result |-> [PushError(result, Issue("Error", Str("Invalid YAML in mkdocs.yml"),
                                                  Str("mkdocs.yml"), None))
                             EXCEPT !.info = Append(@, Str("mkdocs.yml validated successfully"))]]
      [] tree.mkdocs = "valid" ->
             [status |-> "ok",
              result |-> [result EXCEPT
                             !.info = Append(@, Str("mkdocs.yml validated successfully"))]]

(***************************************************************************)
(* The validate command run step by step over bounded documentation trees. *)
(***************************************************************************)
\* The texts a markdown file can hold
ValTexts ==
    {Str("# Title\nText."), <<>>, Str("Text."), Str("# Title\nTODO later"),
     Str("# Title\n") \o Fence \o Str("\ncode"),
     Str("# Title\n") \o Fence \o Str("\ncode\n") \o Fence,
     Str("# Title\n[a](./missing.md) [b](getting-started/quickstart)")}

ValPage(path, text) == [path |-> path, readable |-> TRUE, text |-> text]

\* The documentation trees: the index page with any text, unreadable or
\* absent, each of the two other required pages present or absent
ValTrees ==
    {[docs_exists |-> TRUE,
      pages |-> first \o second \o third,
      mkdocs |-> mk] :
        first \in {<<>>, <<[path |-> required_files[1], readable |-> FALSE, text |-> <<>>]>>}
                      \cup {<<ValPage(required_files[1], t)>> : t \in ValTexts},
        second \in {<<>>, <<ValPage(required_files[2], Str("# Install\nText."))>>},
        third \in {<<>>, <<ValPage(required_files[3], Str("# Quickstart\nText."))>>},
        mk \in {"missing", "unreadable", "invalid", "valid"}}
        \cup {NoTree}

ValInit ==
    /\ vfs \in ValTrees
    /\ strict \in BOOLEAN
    /\ vidx = 0
    /\ vresult = ValidationNew
    /\ voutcome = "none"
    /\ vpc = "begin"
    /\ JsIdle
    /\ PpIdle
    /\ ScIdle
    /\ ExIdle
    /\ GenIdle
    /\ RenderIdle
    /\ NoScans

\* validate.rs:24-34: the docs directory is missing
ValNoDocs ==
    /\ vpc = "begin"
    /\ ~vfs.docs_exists
    /\ vresult' = [PushError(vresult, Issue("Error",
                                 Str("Documentation directory does not exist"),
                                 Str("docs"), None))
                      EXCEPT !.passed = FALSE]
    /\ vpc' = "report"
    /\ UNCHANGED <<vfs, strict, vidx, voutcome, notV>>

\* validate.rs:35-36: the walk over the markdown files starts
ValWalk ==
    /\ vpc = "begin"
    /\ vfs.docs_exists
    /\ vidx' = 1
    /\ vpc' = "files"
    /\ UNCHANGED <<vfs, strict, vresult, voutcome, notV>>

\* What a step does with the Result of the function it called
ValStep(r, next_pc) ==
    IF r.status = "ok"
    THEN vresult' = r.result /\ vpc' = next_pc /\ voutcome' = voutcome
    ELSE vresult' = vresult /\ vpc' = "done" /\ voutcome' = "err"

\* validate.rs:37-42: one markdown file
ValFile ==
    /\ vpc = "files"
    /\ vidx <= Len(vfs.pages)
    /\ ValStep(validate_markdown_file(vfs.pages[vidx], vresult), "files")
    /\ vidx' = vidx + 1
    /\ UNCHANGED <<vfs, strict, notV>>

\* validate.rs:45: the required files
ValRequired ==
    /\ vpc = "files"
    /\ vidx > Len(vfs.pages)
    /\ vresult' = check_required_files(vfs, vresult, 1)
    /\ vpc' = "links"
    /\ UNCHANGED <<vfs, strict, vidx, voutcome, notV>>

\* validate.rs:48: the internal links
ValLinks ==
    /\ vpc = "links"
    /\ ValStep(check_internal_links(vfs, vresult, 1), "mkdocs")
    /\ UNCHANGED <<vfs, strict, vidx, notV>>

\* validate.rs:51: mkdocs.yml
ValMkdocs ==
    /\ vpc = "mkdocs"
    /\ ValStep(validate_mkdocs_config(vfs, vresult), "report")
    /\ UNCHANGED <<vfs, strict, vidx, notV>>

\* validate.rs:55-67: the report, the strict rule and the end of the run
ValReport ==
    /\ vpc = "report"
    /\ LET passed == IF strict /\ vresult.warnings # <<>> THEN FALSE ELSE vresult.passed
       IN  /\ vresult' = [vresult EXCEPT !.passed = passed]
           /\ voutcome' = IF passed THEN "ok" ELSE "exit1"
    /\ vpc' = "done"
    /\ UNCHANGED <<vfs, strict, vidx, notV>>

ValNext ==
    \/ ValNoDocs \/ ValWalk \/ ValFile \/ ValRequired \/ ValLinks \/ ValMkdocs \/ ValReport

SpecValidate == ValInit /\ [][ValNext]_vars

\* C21: a run that ends with an error-severity issue recorded does not
\* report success, whether strict or not.
C21_ErrorsFailValidation ==
    (vpc = "done" /\ vresult.errors # <<>>) => voutcome # "ok"

====
